---- MODULE Spec2Model ----
(***************************************************************************)
(* The custodial keyring of snap-institutional-wallet as a state machine.  *)
(*                                                                         *)
(* The snap runs on one JavaScript event loop: an async function runs      *)
(* without interruption up to its next `await`, so every action below is   *)
(* one such run: it starts where a promise the task awaits settles and     *)
(* goes on to the next await (or to the end of the function).  A call to   *)
(* the state manager takes effect where it settles (its write, or the      *)
(* snapshot it returns, is the one of that moment).                        *)
(*                                                                         *)
(* Fifteen specifications share the variables:                             *)
(*   Spec        the client registry and refresh-token rotation, called    *)
(*               with the stored addresses; grants declare one lifetime    *)
(*   SpecAccount createAccount / deleteAccount                             *)
(*   SpecSubmit  submitRequest                                             *)
(*   SpecRead    getConnectedAccounts and the unsupported methods          *)
(*   SpecLookup  the registry, called with addresses in either case        *)
(*   SpecToken   getAccessToken: every lifetime and every refusal          *)
(*   SpecOnboard handleOnboarding, called through onRpcRequest             *)
(*   SpecCron    onCronjob, with at most one onboarding                    *)
(*   SpecEntry   onRpcRequest and onKeyringRequest, by any origin          *)
(*   SpecRecreate an account deleted and created again, and its client     *)
(*   SpecGenerations the getAccessToken of ECA1Client and of ECA3Client    *)
(*   SpecRegistry every operation of the keyring, and the registry         *)
(*   SpecPublish createAccount and eth_signTransaction                     *)
(*   SpecSchedule the cron jobs fired again and again, with fairness       *)
(*   SpecOrigin  createAccount and getConnectedAccounts by two origins     *)
(***************************************************************************)
EXTENDS Integers, Sequences, FiniteSets, TLC

VARIABLES
    wallets,    \* state manager: the stored wallets {account, details}
    registry,   \* CustodialKeyring.#custodianApi : Map<string, ICustodianApi>
    clients,    \* every custodian client constructed so far (index = identity)
    issued,     \* custodian side: the newest refresh token of each API URL's session
    tasks,      \* every async call started so far, with its position and locals
    events,     \* REFRESH_TOKEN_CHANGE_EVENT payloads emitted so far
    dev,        \* config.dev
    requests,   \* request manager: the persisted request records
    emitted,    \* keyring events handed to emitSnapKeyringEvent so far
    activated,  \* state manager: the snap has had an onboarding request
    sleepState  \* the sleep flag of getSleepState / setSleepState

vars == <<wallets, registry, clients, issued, tasks, events, dev, requests,
          emitted, activated, sleepState>>

----------------------------------------------------------------------------
(* Bounds *)

\* operations a run may start
MaxOps == 2

\* refresh-token rotations a custodian session may perform
MaxTok == 2

\* createAccount / deleteAccount calls a run of SpecAccount may start
MaxAccountOps == 2

\* submitRequest calls a run of SpecSubmit may start (next to them it starts
\* one deleteAccount)
MaxSubmitOps == 1

\* calls a run of SpecRead may start
MaxReadOps == 2

\* onRpcRequest calls a run of SpecOnboard may start
MaxRpcOps == 1

\* cron jobs a run of SpecCron may start (next to them it starts one
\* onboarding request)
MaxCronOps == 2

\* onRpcRequest and onKeyringRequest calls a run of SpecEntry may start
MaxEntryOps == 2

\* calls of one run of SpecRecreate
MaxRecreateOps == 4

\* getAccessToken calls on each client in one run of SpecGenerations
MaxGenCalls == 2

\* createAccount, deleteAccount and submitRequest calls in one run of
\* SpecPublish
MaxPublishOps == 3

\* createAccount and getConnectedAccounts calls in one run of SpecOrigin
MaxOriginOps == 3

----------------------------------------------------------------------------
(* Values *)

Urls == {"U", "V"}

\* a1..a3 are the addresses of the stored wallets, a4 is no wallet's address
Bases == {"a1", "a2", "a3", "a4"}

\* An address is its 20 bytes (b) and the case of its hex digits (c):
\* "cs" is the EIP-55 checksum form, "lc" the all-lowercase form.
Forms == {"cs", "lc"}

Address == [b : Bases, c : Forms]

Tokens == 0..(MaxTok + 1)

NoClient == 0

\* response.refresh_token absent
NoToken == -1

EthMethods == {"eth_signTransaction", "personal_sign",
               "eth_signTypedData_v3", "eth_signTypedData_v4"}

\* toChecksumAddress that leaves the address as it was given
toChecksumAddress_Identity(a) == a

toChecksumAddress(a) == [b |-> a.b, c |-> "cs"]

Details(tok, url) ==
    [token |-> tok, custodianApiUrl |-> url, custodianType |-> "ECA3",
     custodianEnvironment |-> "env"]

Wallet(id, addr, det) ==
    [id |-> id, address |-> addr, methods |-> EthMethods,
     options |-> [environmentName |-> "env", deferPublication |-> FALSE,
                  importOrigin |-> "origin"],
     details |-> det]

\* The wallets of the rotation test, the third with the token of the others at
\* another API URL.
RotationWallets ==
    { Wallet(1, [b |-> "a1", c |-> "cs"], Details(0, "U")),
      Wallet(2, [b |-> "a2", c |-> "cs"], Details(0, "U")),
      Wallet(3, [b |-> "a3", c |-> "cs"], Details(0, "V")) }

----------------------------------------------------------------------------
(* State manager *)

listWallets == wallets

getWalletByAddress(addr) == {w \in wallets : w.address = addr}

updateWalletDetails(id, det) ==
    {IF w.id = id THEN [w EXCEPT !.details = det] ELSE w : w \in wallets}

\* a set of wallets in the order listWallets returns them
RECURSIVE InOrder(_)
InOrder(ws) ==
    IF ws = {} THEN <<>>
    ELSE LET first == CHOOSE w \in ws : \A v \in ws : w.id <= v.id
         IN <<first>> \o InOrder(ws \ {first})

----------------------------------------------------------------------------
(* Tasks *)

TaskIds == 1..Len(tasks)

Ops == {i \in TaskIds : tasks[i].kind # "handler"}

OpsOf(kind) == {i \in TaskIds : tasks[i].kind = kind}

Finished(i) == tasks[i].pc \in {"done", "failed"}

Settled == \A i \in TaskIds : Finished(i)

SetTask(i, t) == [tasks EXCEPT ![i] = t]

----------------------------------------------------------------------------
(* Custodian client: getAccessToken *)

\* #cacheAge = null: no expires_in was declared yet (or the last one was
\* undefined)
NoAge == -1

\* SimpleCache.cacheExists('accessToken')
cacheExists(client) == client.cached

\* a cacheValid that never lets the token expire
cacheValid_Always(client, maxAge) == TRUE

\* SimpleCache.cacheValid('accessToken', maxAge): the time since setCache
\* is less than maxAge
cacheValid(client, maxAge) == client.age < maxAge

\* the condition under which getAccessToken returns the cached token:
\* #cacheAge is truthy, and the cache exists and is valid for #cacheAge
CacheTrusted(client) ==
    /\ client.cacheAge # NoAge /\ client.cacheAge # 0
    /\ cacheExists(client)
    /\ cacheValid(client, client.cacheAge)

\* a getAccessToken that never looks at its cache
Obtain_AlwaysFetch(t, c, client) ==
    [t EXCEPT !.client = c, !.got = client.refreshToken,
              !.sent = client.refreshToken, !.pc = "fetching"]

\* The client is handed to its caller, which calls a capability on it: the
\* capability starts with getAccessToken, which answers from the cache when
\* it is valid and otherwise posts the refresh token it holds.
Obtain(t, c, client) ==
    IF CacheTrusted(client)
    THEN [t EXCEPT !.client = c, !.got = client.refreshToken,
                   !.rpc = TRUE, !.pc = "done"]
    ELSE [t EXCEPT !.client = c, !.got = client.refreshToken,
                   !.sent = client.refreshToken, !.pc = "fetching"]

\* #handleTokenChangedEvent up to its first await
HandlerTask(payload) ==
    [kind |-> "handler", pc |-> "listing", payload |-> payload,
     listed |-> {}, todo |-> <<>>, idx |-> 0, calls |-> {}]

\* a rotation test that takes every refresh token in an answer for a new one
Rotated_AnyToken(held, rt) == rt # NoToken

\* responseJson.refresh_token && responseJson.refresh_token !==
\* this.#refreshToken
Rotated(held, rt) == rt # NoToken /\ rt # held

\* The refresh endpoint answers a grant for the session's current refresh
\* token: expires_in is ttl, refresh_token is rt.
GrantOk(i, ttl, rt) ==
    LET t == tasks[i]
        c == t.client
        held == clients[c].refreshToken
        rotated == Rotated(held, rt)
        payload == [apiUrl |-> clients[c].apiUrl, oldRefreshToken |-> held,
                    newRefreshToken |-> rt]
        t2 == [t EXCEPT !.response = "ok", !.rpc = TRUE, !.pc = "done"]
    IN /\ t.kind = "use" /\ t.pc = "fetching"
       /\ t.sent = issued[clients[c].apiUrl]
       /\ rt \in {NoToken, t.sent, t.sent + 1}
       /\ rt <= MaxTok
       /\ issued' = [issued EXCEPT ![clients[c].apiUrl] =
                        IF rt = NoToken THEN @ ELSE rt]
       /\ clients' = [clients EXCEPT
                        ![c].cacheAge = ttl,
                        ![c].cached = TRUE,
                        ![c].age = 0,
                        ![c].refreshToken = IF rotated THEN rt ELSE @]
       /\ events' = IF rotated THEN Append(events, payload) ELSE events
       /\ tasks' = IF rotated
                   THEN Append(SetTask(i, t2), HandlerTask(payload))
                   ELSE SetTask(i, t2)
       /\ UNCHANGED <<wallets, registry, dev, requests, emitted,
                      activated, sleepState>>

\* The answers with which the refresh endpoint refuses a grant: status 401
\* with a url field, status 401 without one, another status that is not ok.
GrantFailures == {"401 url", "401", "not ok"}

\* The ways a grant fails without an answer to read: fetch rejects, or
\* response.json() does.
FetchErrors == {"network error", "invalid json"}

\* the url field of a 401 answer
OnboardingUrl == "onboarding url"

\* the first of the numbers that stand for digests: no refresh token is one
Digests == 100

\* crypto.createHash('sha256').update(text).digest('hex'), for a text made
\* of a refresh token and the url: a digest per token, equal to no token
sha256(text) == Digests + text[1]

\* a payload that carries the refresh token itself
TokenExpiredPayload_Raw(url, oldRefreshToken) ==
    [url |-> url, oldRefreshToken |-> oldRefreshToken]

\* the payload of TOKEN_EXPIRED_EVENT
TokenExpiredPayload(url, oldRefreshToken) ==
    [url |-> url, oldRefreshToken |-> sha256(<<oldRefreshToken, url>>)]

\* a client that posts the grant again when the endpoint refuses it
GrantFailed_Retry(i, response) ==
    LET t == tasks[i]
    IN /\ t.kind = "use" /\ t.pc = "fetching"
       /\ tasks' = SetTask(i, [t EXCEPT !.response = response])
       /\ UNCHANGED <<wallets, registry, clients, issued, events, dev,
                      requests, emitted, activated, sleepState>>

\* a client that forgets its cached token when a grant fails
GrantFailed_DropsCache(i, response) ==
    LET t == tasks[i]
    IN /\ t.kind = "use" /\ t.pc = "fetching"
       /\ tasks' = SetTask(i, [t EXCEPT !.response = response,
                                        !.pc = "failed",
                                        !.err = "AccessTokenRequestFailed"])
       /\ clients' = [clients EXCEPT ![t.client].cached = FALSE,
                                     ![t.client].cacheAge = NoAge,
                                     ![t.client].age = 0]
       /\ UNCHANGED <<wallets, registry, issued, events, dev, requests,
                      emitted, activated, sleepState>>

\* The refresh endpoint refuses the grant, or the request fails.
GrantFailed(i, response) ==
    LET t == tasks[i]
        c == t.client
        url == OnboardingUrl
    IN /\ t.kind = "use" /\ t.pc = "fetching"
       /\ tasks' = SetTask(i,
            IF response = "401 url"
            THEN [t EXCEPT !.response = response, !.pc = "failed",
                           !.err = "RefreshTokenInvalid",
                           !.expired = Append(@,
                              TokenExpiredPayload(url,
                                                  clients[c].refreshToken))]
            ELSE [t EXCEPT !.response = response, !.pc = "failed",
                           !.err = "AccessTokenRequestFailed"])
       /\ UNCHANGED <<wallets, registry, clients, issued, events, dev,
                      requests, emitted,
                      activated, sleepState>>

\* Time passes, by one unit of the access token's lifetime, until the
\* declared lifetime of the cached token is over.
Expire(c) ==
    /\ clients[c].cached /\ clients[c].age < clients[c].cacheAge
    /\ clients' = [clients EXCEPT ![c].age = @ + 1]
    /\ UNCHANGED <<wallets, registry, issued, tasks, events, dev, requests,
                   emitted,
                      activated, sleepState>>

----------------------------------------------------------------------------
(* CustodialKeyring: the client registry *)

\* #getCustodianApi(details), for the registry key it will be stored under
getCustodianApi(key, det) ==
    [key |-> key, apiUrl |-> det.custodianApiUrl,
     refreshToken |-> det.token, cacheAge |-> NoAge, cached |-> FALSE,
     age |-> 0]

\* no earlier call for the address (in whatever case) awaits its wallet
Alone(address) ==
    \A k \in TaskIds :
        (tasks[k].kind = "use" /\ tasks[k].address.b = address.b)
        => tasks[k].pc # "awaitWallet"

UseTask(address) ==
    [kind |-> "use", address |-> address, key |-> toChecksumAddress(address),
     alone |-> Alone(address),
     pc |-> "awaitWallet", client |-> NoClient,
     got |-> NoToken, sent |-> NoToken, response |-> "", rpc |-> FALSE,
     err |-> "", expired |-> <<>>, ev |-> Len(events)]

\* getCustodianApiForAddress(address) is called, by a caller that goes on to
\* call a capability of the client: up to the await of getWalletByAddress on
\* a miss, and on a hit to the return of the cached client.
GetCustodianApiForAddressTask(address) ==
    LET key == toChecksumAddress(address)
        t == UseTask(address)
    IN IF registry[key] # NoClient
       THEN Obtain(t, registry[key], clients[registry[key]])
       ELSE t

\* getCustodianApiForAddress(address) is called
GetCustodianApiForAddress(address) ==
    /\ Cardinality(Ops) < MaxOps
    /\ tasks' = Append(tasks, GetCustodianApiForAddressTask(address))
    /\ UNCHANGED <<wallets, registry, clients, issued, events, dev,
                   requests, emitted, activated, sleepState>>

\* getWalletByAddress settles: the wallet is absent and the call throws, or
\* the client is constructed, stored and returned.
GotWallet(i) ==
    LET t == tasks[i]
        found == getWalletByAddress(t.key)
        wallet == CHOOSE w \in found : TRUE
        c == Len(clients) + 1
        cs == Append(clients, getCustodianApi(t.key, wallet.details))
    IN /\ t.kind = "use" /\ t.pc = "awaitWallet"
       /\ IF found = {}
          THEN /\ tasks' = SetTask(i, [t EXCEPT !.pc = "failed",
                                                !.err = "WalletNotFound"])
               /\ UNCHANGED <<registry, clients>>
          ELSE /\ clients' = cs
               /\ registry' = [registry EXCEPT ![t.key] = c]
               /\ tasks' = SetTask(i, Obtain(t, c, cs[c]))
       /\ UNCHANGED <<wallets, issued, events, dev, requests, emitted,
                      activated, sleepState>>

----------------------------------------------------------------------------
(* CustodialKeyring.#handleTokenChangedEvent *)

\* the filter without its API URL conjunct
WalletsToUpdate_TokenOnly(ws, payload) ==
    {w \in ws : w.details.token = payload.oldRefreshToken}

WalletsToUpdate(ws, payload) ==
    {w \in ws : /\ w.details.token = payload.oldRefreshToken
                /\ w.details.custodianApiUrl = payload.apiUrl}

UpdatedDetails(wallet, payload) ==
    [wallet.details EXCEPT !.token = payload.newRefreshToken]

\* this.#custodianApi.delete(wallet.account.address)
Dereference(reg, wallet) == [reg EXCEPT ![wallet.address] = NoClient]

\* listWallets settles: the wallets to update are chosen, and the loop runs up
\* to its first await of updateWalletDetails.
HandlerListed(i) ==
    LET t == tasks[i]
        todo == InOrder(WalletsToUpdate(listWallets, t.payload))
    IN /\ t.kind = "handler" /\ t.pc = "listing"
       /\ IF todo = <<>>
          THEN /\ tasks' = SetTask(i, [t EXCEPT !.listed = listWallets,
                                                !.pc = "done"])
               /\ UNCHANGED registry
          ELSE /\ registry' = Dereference(registry, todo[1])
               /\ tasks' = SetTask(i, [t EXCEPT !.listed = listWallets,
                              !.todo = todo, !.idx = 1, !.pc = "updating"])
       /\ UNCHANGED <<wallets, clients, issued, events, dev, requests, emitted,
                      activated, sleepState>>

\* updateWalletDetails settles, and the loop goes on to the next wallet's
\* await or ends.
HandlerUpdated(i) ==
    LET t == tasks[i]
        wallet == t.todo[t.idx]
        det == UpdatedDetails(wallet, t.payload)
        called == t.calls \cup {[id |-> wallet.id, details |-> det]}
    IN /\ t.kind = "handler" /\ t.pc = "updating"
       /\ wallets' = updateWalletDetails(wallet.id, det)
       /\ IF t.idx = Len(t.todo)
          THEN /\ tasks' = SetTask(i, [t EXCEPT !.calls = called,
                                                !.pc = "done"])
               /\ UNCHANGED registry
          ELSE /\ registry' = Dereference(registry, t.todo[t.idx + 1])
               /\ tasks' = SetTask(i, [t EXCEPT !.calls = called,
                                                !.idx = t.idx + 1])
       /\ UNCHANGED <<clients, issued, events, dev, requests, emitted,
                      activated, sleepState>>

----------------------------------------------------------------------------
(* Spec: the registry and the rotation of refresh tokens *)

Init ==
    /\ wallets = RotationWallets
    /\ registry = [a \in Address |-> NoClient]
    /\ clients = <<>>
    /\ issued = [u \in Urls |-> 0]
    /\ tasks = <<>>
    /\ events = <<>>
    /\ dev = FALSE
    /\ requests = {}
    /\ emitted = <<>>
    /\ activated = TRUE
    /\ sleepState = FALSE

\* the addresses of the stored wallets, as they are stored
StoredAddresses == {w.address : w \in RotationWallets}

Next ==
    \/ \E a \in StoredAddresses : GetCustodianApiForAddress(a)
    \/ \E i \in TaskIds : GotWallet(i)
    \/ \E i \in TaskIds : \E rt \in Tokens \cup {NoToken} : GrantOk(i, 1, rt)
    \/ \E i \in TaskIds : GrantFailed(i, "not ok")
    \/ \E c \in 1..Len(clients) : Expire(c)
    \/ \E i \in TaskIds : HandlerListed(i)
    \/ \E i \in TaskIds : HandlerUpdated(i)

Spec == Init /\ [][Next]_vars

----------------------------------------------------------------------------
(* SpecLookup: the registry, called with addresses in either case *)

\* a stored wallet's address in both forms, and the lowercase form of an
\* address no wallet has
LookupAddresses ==
    {[b |-> "a1", c |-> "cs"], [b |-> "a1", c |-> "lc"],
     [b |-> "a4", c |-> "lc"]}

NextLookup ==
    \/ \E a \in LookupAddresses : GetCustodianApiForAddress(a)
    \/ \E i \in TaskIds : GotWallet(i)
    \/ \E i \in TaskIds : \E ttl \in {0, 1} : \E rt \in Tokens \cup {NoToken} :
           GrantOk(i, ttl, rt)
    \/ \E i \in TaskIds : \E r \in GrantFailures : GrantFailed(i, r)
    \/ \E c \in 1..Len(clients) : Expire(c)
    \/ \E i \in TaskIds : HandlerListed(i)
    \/ \E i \in TaskIds : HandlerUpdated(i)

SpecLookup == Init /\ [][NextLookup]_vars

----------------------------------------------------------------------------
(* SpecToken: the access-token cache of one account's client *)

TokenAddresses == {[b |-> "a1", c |-> "cs"]}

\* the expires_in values of a grant: undefined, zero, and two lifetimes
Lifetimes == {NoAge, 0, 1, 2}

NextToken ==
    \/ \E a \in TokenAddresses : GetCustodianApiForAddress(a)
    \/ \E i \in TaskIds : GotWallet(i)
    \/ \E i \in TaskIds : \E ttl \in Lifetimes :
           \E rt \in Tokens \cup {NoToken} : GrantOk(i, ttl, rt)
    \/ \E i \in TaskIds : \E r \in GrantFailures \cup FetchErrors :
           GrantFailed(i, r)
    \/ \E c \in 1..Len(clients) : Expire(c)
    \/ \E i \in TaskIds : HandlerListed(i)
    \/ \E i \in TaskIds : HandlerUpdated(i)

SpecToken == Init /\ [][NextToken]_vars

----------------------------------------------------------------------------
(* Claims about the registry and the rotation *)

ClientsFor(key) == {c \in 1..Len(clients) : clients[c].key = key}

Returned(key) ==
    {tasks[i].client : i \in {j \in Ops : /\ tasks[j].kind = "use"
                                          /\ tasks[j].key = key
                                          /\ tasks[j].client # NoClient}}

\* C1: while no rotation event has been emitted, all the calls of
\* getCustodianApiForAddress for one address, concurrent ones included, return
\* the same client, and at most one client is ever constructed for the address.
C1_OneClientPerAddress ==
    events = <<>> =>
        \A k \in Address : /\ Cardinality(ClientsFor(k)) <= 1
                           /\ Cardinality(Returned(k)) <= 1

Handlers == {i \in TaskIds : tasks[i].kind = "handler"}

Matching(h) ==
    {w \in h.listed : /\ w.details.token = h.payload.oldRefreshToken
                      /\ w.details.custodianApiUrl = h.payload.apiUrl}

\* C2: the rotation handler calls updateWalletDetails for exactly the wallets
\* whose (token, API URL) is the event's (oldRefreshToken, apiUrl) in the list
\* it read, with the details it read and only the token replaced by
\* newRefreshToken; where one handler alone has run, the stored wallets are
\* the listed ones with exactly those tokens replaced.
C2_RotationFanOut ==
    \A i \in Handlers :
        LET h == tasks[i]
            new == h.payload.newRefreshToken
        IN /\ \A u \in h.calls : \E w \in Matching(h) :
                  /\ w.id = u.id
                  /\ u.details.token = new
                  /\ \A f \in DOMAIN w.details \ {"token"} :
                         u.details[f] = w.details[f]
           /\ h.pc = "done" =>
                  {u.id : u \in h.calls} = {w.id : w \in Matching(h)}
           /\ (h.pc = "done" /\ Len(events) = 1) =>
                  wallets = {IF w \in Matching(h)
                             THEN [w EXCEPT !.details.token = new]
                             ELSE w : w \in h.listed}

\* C2 witness: a handler has finished after updating the two wallets that
\* share the old token and the API URL, and the wallet with the same token at
\* another API URL still has the old token.
C2_Witness ==
    \E i \in Handlers :
        /\ tasks[i].pc = "done"
        /\ Cardinality(tasks[i].calls) = 2
        /\ \E w \in wallets :
               /\ w.details.token = tasks[i].payload.oldRefreshToken
               /\ w.details.custodianApiUrl # tasks[i].payload.apiUrl

\* C3: once every call and every handler has finished, each wallet's stored
\* token is the newest refresh token of its custodian session, and so is the
\* refresh token of the registry's client for the wallet's address.
C3_TokensConverge ==
    Settled =>
        \A w \in wallets :
            LET c == registry[toChecksumAddress(w.address)]
            IN /\ w.details.token = issued[w.details.custodianApiUrl]
               /\ c # NoClient => clients[c].refreshToken = w.details.token

\* C4: a call that starts after a RefreshTokenRotated event was emitted is
\* never handed a client of that API URL that holds the event's old refresh
\* token.
C4_NoStaleClientAfterRotation ==
    \A i \in Ops :
        (tasks[i].kind = "use" /\ tasks[i].client # NoClient) =>
            \A n \in 1..tasks[i].ev :
                ~ /\ events[n].apiUrl = clients[tasks[i].client].apiUrl
                  /\ events[n].oldRefreshToken = tasks[i].got

----------------------------------------------------------------------------
(* CustodialKeyring.createAccount *)

\* custodianMetadata: the allow-list, in its order.  Entries may share an
\* apiBaseUrl ('http://localhost:8090' does); find returns the first.
custodianMetadata ==
    << [apiBaseUrl |-> "U", name |-> "gk8-prod",
        custodianPublishesTransaction |-> TRUE],
       [apiBaseUrl |-> "U", name |-> "gk8-eca3-prod",
        custodianPublishesTransaction |-> TRUE],
       [apiBaseUrl |-> "V", name |-> "cubist-prod",
        custodianPublishesTransaction |-> FALSE] >>

\* API URLs a caller may give: "X" is on no allow-list entry
ApiUrls == {"U", "V", "X"}

\* the custodianEnvironment a caller gives: the name of no allow-list entry
CallerEnvs == {"caller-env"}

\* custodianMetadata.find(item => item.apiBaseUrl === url), as a sequence of
\* at most one entry
FindCustodian(url) ==
    LET hits == {n \in 1..Len(custodianMetadata) :
                     custodianMetadata[n].apiBaseUrl = url}
    IN IF hits = {} THEN <<>>
       ELSE <<custodianMetadata[CHOOSE n \in hits : \A m \in hits : n <= m]>>

\* the environment name that ignores the mode and trusts the caller
EnvironmentName_Caller(devMode, custodian, options) == options.env

\* custodianEnvironmentName, where the call does not throw
EnvironmentName(devMode, custodian, options) ==
    IF devMode THEN options.env ELSE custodian[1].name

isUniqueAddress(address, ws) == \A w \in ws : w.address # address

uuid(i) == 100 + i

\* an account that keeps the default of deferPublication
NewAccountWallet_Default(i, t) ==
    [id |-> uuid(i), address |-> t.options.address,
     methods |-> EthMethods,
     options |-> [environmentName |-> t.envName,
                  deferPublication |-> FALSE,
                  importOrigin |-> t.options.origin],
     details |-> [token |-> t.options.token,
                  custodianApiUrl |-> t.options.url,
                  custodianType |-> "ECA3",
                  custodianEnvironment |-> t.options.env]]

\* an account that does not record who imported it
NewAccountWallet_NoOrigin(i, t) ==
    LET custodian == FindCustodian(t.options.url)
    IN [id |-> uuid(i), address |-> t.options.address,
        methods |-> EthMethods,
        options |-> [environmentName |-> t.envName,
                     deferPublication |->
                        (custodian # <<>> /\
                         custodian[1].custodianPublishesTransaction),
                     importOrigin |-> "origin"],
        details |-> [token |-> t.options.token,
                     custodianApiUrl |-> t.options.url,
                     custodianType |-> "ECA3",
                     custodianEnvironment |-> t.options.env]]

NewAccountWallet(i, t) ==
    LET custodian == FindCustodian(t.options.url)
    IN [id |-> uuid(i), address |-> t.options.address,
        methods |-> EthMethods,
        options |-> [environmentName |-> t.envName,
                     deferPublication |->
                        (custodian # <<>> /\
                         custodian[1].custodianPublishesTransaction),
                     importOrigin |-> t.options.origin],
        details |-> [token |-> t.options.token,
                     custodianApiUrl |-> t.options.url,
                     custodianType |-> "ECA3",
                     custodianEnvironment |-> t.options.env]]

\* createAccount(options) up to its first await (listWallets), or to the
\* throw for an API URL that is not allow-listed
CreateAccountTask(options) ==
    LET custodian == FindCustodian(options.url)
        unknown == ~dev /\ custodian = <<>>
    IN [kind |-> "createAccount", options |-> options, dev |-> dev,
        pc |-> IF unknown THEN "failed" ELSE "listing",
        err |-> IF unknown THEN "UnknownCustodian" ELSE "",
        envName |-> IF unknown THEN ""
                    ELSE EnvironmentName(dev, custodian, options),
        listed |-> {}, verdict |-> ""]

\* createAccount(options) is called
CreateAccount(options) ==
    LET t == CreateAccountTask(options)
    IN /\ Cardinality(Ops) < MaxAccountOps
       /\ tasks' = Append(tasks, t)
       /\ UNCHANGED <<wallets, registry, clients, issued, events, dev,
                      requests, emitted,
                      activated, sleepState>>

AccountCreatedEvent(i, w) ==
    [event |-> "AccountCreated", by |-> i, id |-> w.id,
     address |-> w.address, environmentName |-> w.options.environmentName]

\* createAccount that registers the account without looking at the wallets
CreateListed_Unchecked(i) ==
    LET t == tasks[i]
    IN /\ t.kind = "createAccount" /\ t.pc = "listing"
       /\ tasks' = SetTask(i, [t EXCEPT !.listed = listWallets,
                                        !.pc = "emitting"])
       /\ emitted' = Append(emitted,
                            AccountCreatedEvent(i, NewAccountWallet(i, t)))
       /\ UNCHANGED <<wallets, registry, clients, issued, events, dev,
                      requests,
                      activated, sleepState>>

\* createAccount that stores the wallet before it asks for the registration
CreateListed_CommitFirst(i) ==
    LET t == tasks[i]
    IN /\ t.kind = "createAccount" /\ t.pc = "listing"
       /\ IF isUniqueAddress(t.options.address, listWallets)
          THEN /\ tasks' = SetTask(i, [t EXCEPT !.listed = listWallets,
                                                !.pc = "emitting"])
               /\ wallets' = wallets \cup {NewAccountWallet(i, t)}
               /\ emitted' = Append(emitted,
                               AccountCreatedEvent(i, NewAccountWallet(i, t)))
          ELSE /\ tasks' = SetTask(i, [t EXCEPT !.listed = listWallets,
                              !.pc = "failed", !.err = "DuplicateAddress"])
               /\ UNCHANGED <<wallets, emitted>>
       /\ UNCHANGED <<registry, clients, issued, events, dev, requests,
                      activated, sleepState>>

\* listWallets settles: the address is in use and the call throws, or the
\* account is built and the AccountCreated event is handed to the client.
CreateListed(i) ==
    LET t == tasks[i]
    IN /\ t.kind = "createAccount" /\ t.pc = "listing"
       /\ IF isUniqueAddress(t.options.address, listWallets)
          THEN /\ tasks' = SetTask(i, [t EXCEPT !.listed = listWallets,
                                                !.pc = "emitting"])
               /\ emitted' = Append(emitted,
                               AccountCreatedEvent(i, NewAccountWallet(i, t)))
          ELSE /\ tasks' = SetTask(i, [t EXCEPT !.listed = listWallets,
                              !.pc = "failed", !.err = "DuplicateAddress"])
               /\ UNCHANGED emitted
       /\ UNCHANGED <<wallets, registry, clients, issued, events, dev,
                      requests,
                      activated, sleepState>>

\* The client accepts the account: addWallet is called.
CreateAccepted(i) ==
    LET t == tasks[i]
    IN /\ t.kind = "createAccount" /\ t.pc = "emitting"
       /\ tasks' = SetTask(i, [t EXCEPT !.verdict = "accepted",
                                        !.pc = "adding"])
       /\ UNCHANGED <<wallets, registry, clients, issued, events, dev,
                      requests, emitted,
                      activated, sleepState>>

\* The client does not accept the account: the event's promise rejects, and
\* the catch block throws the message on.
CreateRejected(i) ==
    LET t == tasks[i]
    IN /\ t.kind = "createAccount" /\ t.pc = "emitting"
       /\ tasks' = SetTask(i, [t EXCEPT !.verdict = "rejected",
                                        !.pc = "failed", !.err = "Rejected"])
       /\ UNCHANGED <<wallets, registry, clients, issued, events, dev,
                      requests, emitted,
                      activated, sleepState>>

\* addWallet settles and the account is returned.
CreateAdded(i) ==
    LET t == tasks[i]
    IN /\ t.kind = "createAccount" /\ t.pc = "adding"
       /\ wallets' = wallets \cup {NewAccountWallet(i, t)}
       /\ tasks' = SetTask(i, [t EXCEPT !.pc = "done"])
       /\ UNCHANGED <<registry, clients, issued, events, dev, requests,
                      emitted,
                      activated, sleepState>>

----------------------------------------------------------------------------
(* CustodialKeyring.deleteAccount *)

\* deleteAccount(id) up to the await of removeAccounts, inside withTransaction
DeleteAccountTask(id) ==
    [kind |-> "deleteAccount", id |-> id,
     present |-> (\E w \in wallets : w.id = id),
     pc |-> "removing", err |-> ""]

\* deleteAccount(id) is called
DeleteAccount(id) ==
    /\ tasks' = Append(tasks, DeleteAccountTask(id))
    /\ UNCHANGED <<wallets, registry, clients, issued, events, dev, requests,
                   emitted,
                      activated, sleepState>>

\* removeAccounts rejects: the transaction is rolled back and the call throws.
DeleteRemoveFailed(i) ==
    LET t == tasks[i]
    IN /\ t.kind = "deleteAccount" /\ t.pc = "removing"
       /\ tasks' = SetTask(i, [t EXCEPT !.pc = "failed",
                                        !.err = "RemoveFailed"])
       /\ UNCHANGED <<wallets, registry, clients, issued, events, dev,
                      requests, emitted,
                      activated, sleepState>>

\* a removeAccounts whose write is stored at once, outside any transaction
DeleteRemoved_Immediate(i) ==
    LET t == tasks[i]
    IN /\ t.kind = "deleteAccount" /\ t.pc = "removing"
       /\ wallets' = {w \in wallets : w.id # t.id}
       /\ tasks' = SetTask(i, [t EXCEPT !.pc = "notifying"])
       /\ emitted' = Append(emitted, [event |-> "AccountDeleted", by |-> i,
                                      id |-> t.id])
       /\ UNCHANGED <<registry, clients, issued, events, dev, requests,
                      activated, sleepState>>

\* removeAccounts settles (its write is the transaction's until the commit),
\* and the AccountDeleted event is handed to the client.
DeleteRemoved(i) ==
    LET t == tasks[i]
    IN /\ t.kind = "deleteAccount" /\ t.pc = "removing"
       /\ tasks' = SetTask(i, [t EXCEPT !.pc = "notifying"])
       /\ emitted' = Append(emitted, [event |-> "AccountDeleted", by |-> i,
                                      id |-> t.id])
       /\ UNCHANGED <<wallets, registry, clients, issued, events, dev,
                      requests,
                      activated, sleepState>>

\* a commit that also drops the registry's client of the deleted account
DeleteCommitted_Evicts(i) ==
    LET t == tasks[i]
    IN /\ t.kind = "deleteAccount" /\ t.pc = "notifying"
       /\ wallets' = {w \in wallets : w.id # t.id}
       /\ registry' = [k \in Address |->
                          IF \E w \in wallets :
                                w.id = t.id /\ toChecksumAddress(w.address) = k
                          THEN NoClient ELSE registry[k]]
       /\ tasks' = SetTask(i, [t EXCEPT !.pc = "done"])
       /\ UNCHANGED <<clients, issued, events, dev, requests, emitted,
                      activated, sleepState>>

\* The event is accepted and the transaction commits.
DeleteCommitted(i) ==
    LET t == tasks[i]
    IN /\ t.kind = "deleteAccount" /\ t.pc = "notifying"
       /\ wallets' = {w \in wallets : w.id # t.id}
       /\ tasks' = SetTask(i, [t EXCEPT !.pc = "done"])
       /\ UNCHANGED <<registry, clients, issued, events, dev, requests,
                      emitted,
                      activated, sleepState>>

\* The event is refused: the transaction is rolled back and the call throws.
DeleteRejected(i) ==
    LET t == tasks[i]
    IN /\ t.kind = "deleteAccount" /\ t.pc = "notifying"
       /\ tasks' = SetTask(i, [t EXCEPT !.pc = "failed", !.err = "Rejected"])
       /\ UNCHANGED <<wallets, registry, clients, issued, events, dev,
                      requests, emitted,
                      activated, sleepState>>

\* handleSetDevMode
SetDevMode(devMode) ==
    /\ dev # devMode
    /\ dev' = devMode
    /\ UNCHANGED <<wallets, registry, clients, issued, tasks, events,
                   requests, emitted,
                      activated, sleepState>>

----------------------------------------------------------------------------
(* SpecAccount: the life of accounts *)

AccountAddresses == {[b |-> "a1", c |-> "cs"], [b |-> "a2", c |-> "cs"]}

CreateAccountOptions ==
    [address : AccountAddresses, url : ApiUrls, env : CallerEnvs,
     token : {0}, origin : {"origin"}]

\* one account is stored when the run starts
AccountWallets == {Wallet(1, [b |-> "a1", c |-> "cs"], Details(0, "U"))}

InitAccount ==
    /\ wallets = AccountWallets
    /\ registry = [a \in Address |-> NoClient]
    /\ clients = <<>>
    /\ issued = [u \in Urls |-> 0]
    /\ tasks = <<>>
    /\ events = <<>>
    /\ dev = FALSE
    /\ requests = {}
    /\ emitted = <<>>
    /\ activated = TRUE
    /\ sleepState = FALSE

NextAccount ==
    \/ \E o \in CreateAccountOptions : CreateAccount(o)
    \/ \E i \in TaskIds : CreateListed(i)
    \/ \E i \in TaskIds : CreateAccepted(i)
    \/ \E i \in TaskIds : CreateRejected(i)
    \/ \E i \in TaskIds : CreateAdded(i)
    \/ \E id \in {w.id : w \in wallets} \cup {99} :
          /\ Cardinality(Ops) < MaxAccountOps
          /\ DeleteAccount(id)
    \/ \E i \in TaskIds : DeleteRemoveFailed(i)
    \/ \E i \in TaskIds : DeleteRemoved(i)
    \/ \E i \in TaskIds : DeleteCommitted(i)
    \/ \E i \in TaskIds : DeleteRejected(i)
    \/ \E b \in BOOLEAN : SetDevMode(b)

SpecAccount == InitAccount /\ [][NextAccount]_vars

----------------------------------------------------------------------------
(* CustodialKeyring.submitRequest *)

\* the methods a request may name: the four of EthMethod the keyring
\* dispatches on, and one it does not
RequestMethods == EthMethods \cup {"eth_sign"}

\* stateManager.getAccount(id), as a set of at most one account
getAccount(id) == {w \in wallets : w.id = id}

\* no custodian id, no deep link yet
NoId == 0

NoLink == [text |-> "", id |-> NoId, url |-> "", action |-> ""]

\* details.id / response.custodianTransactionId, as the custodian gives it to
\* the signing call of task i
custodianId(i) == 200 + i

\* the deep link a custodian answers with
CustodianLink(id) ==
    [text |-> "custodian text", id |-> id, url |-> "custodian url",
     action |-> "custodian action"]

\* the deep link of the catch block
FallbackLink(id) ==
    [text |-> "Complete in Custodian App", id |-> id, url |-> "",
     action |-> "view"]

\* renderInfoMessage(`${deepLink.text} Transaction ID: ${deepLink.id}`)
InfoMessage(deepLink) == <<deepLink.text, "Transaction ID:", deepLink.id>>

SubmitTask(request) ==
    [kind |-> "submitRequest", request |-> request, dev |-> dev,
     pc |-> "validating", err |-> "", client |-> NoClient,
     found |-> FALSE, lookups |-> 0, built |-> 0, capabilities |-> 0,
     custodianId |-> NoId, linkError |-> FALSE, link |-> NoLink,
     txOptions |-> <<>>, upserts |-> 0, message |-> <<>>, result |-> "",
     surfaced |-> ""]

\* submitRequest(request) up to the await of getAccount in
\* #handleSigningRequest
SubmitRequest(request) ==
    /\ Cardinality(OpsOf("submitRequest")) < MaxSubmitOps
    /\ tasks' = Append(tasks, SubmitTask(request))
    /\ UNCHANGED <<wallets, registry, clients, issued, events, dev, requests,
                   emitted,
                      activated, sleepState>>

\* the errors of the validation in #handleSigningRequest and of the account
\* lookup in #asyncSubmitRequest
ValidationErrors == {"AccountNotFound", "MethodNotSupported"}

\* runSensitive(callback, message), for a callback that throws err
runSensitive(err, message) ==
    IF err \in ValidationErrors THEN err ELSE message

\* submitRequest that wraps the call in either mode
Surface_AlwaysSensitive(devMode, err) ==
    runSensitive(err, "An unexpected error occurred")

\* what submitRequest throws when #asyncSubmitRequest throws err
Surface(devMode, err) ==
    IF devMode THEN err
    ELSE runSensitive(err, "An unexpected error occurred")

\* #asyncSubmitRequest throws err
Fail(t, err) ==
    [t EXCEPT !.pc = "failed", !.err = err, !.surfaced = Surface(t.dev, err)]

\* the position after the client for the signing call has been returned
AfterClient(t) ==
    IF t.request.method = "eth_signTransaction"
    THEN [t EXCEPT !.pc = "txWallet"]
    ELSE [t EXCEPT !.pc = "signing", !.capabilities = @ + 1]

\* getCustodianApiForAddress(address) inside a submitRequest: up to the await
\* on a miss (pc `miss`), or to what the caller does with the cached client
Lookup(t, address, miss, hit) ==
    LET key == toChecksumAddress(address)
        t1 == [t EXCEPT !.lookups = @ + 1]
    IN IF registry[key] = NoClient
       THEN [t1 EXCEPT !.pc = miss]
       ELSE [hit EXCEPT !.lookups = t1.lookups, !.client = registry[key]]

\* the validation that does not look the account up
Validate_NoAccountCheck(t) ==
    IF t.request.method \notin EthMethods
    THEN Fail(t, "EvmMethodNotSupported")
    ELSE Lookup(t, t.request.from, "awaitWallet", AfterClient(t))

\* the validation that does not look at the account's methods
Validate_NoMethodCheck(t) ==
    IF getAccount(t.request.account) = {}
    THEN Fail(t, "AccountNotFound")
    ELSE Lookup(t, t.request.from, "awaitWallet", AfterClient(t))

\* #handleSigningRequest from the settling of getAccount to its next await
Validate(t) ==
    LET found == getAccount(t.request.account)
        account == CHOOSE w \in found : TRUE
    IN IF found = {}
       THEN Fail(t, "AccountNotFound")
       ELSE IF t.request.method \notin account.methods
       THEN Fail(t, "MethodNotSupported")
       ELSE IF t.request.method \notin EthMethods
       THEN Fail(t, "EvmMethodNotSupported")
       ELSE Lookup(t, t.request.from, "awaitWallet", AfterClient(t))

SubmitValidated(i) ==
    /\ tasks[i].kind = "submitRequest" /\ tasks[i].pc = "validating"
    /\ tasks' = SetTask(i, [Validate(tasks[i]) EXCEPT
                               !.found = getAccount(tasks[i].request.account) # {}])
    /\ UNCHANGED <<wallets, registry, clients, issued, events, dev, requests,
                   emitted,
                      activated, sleepState>>

\* getWalletByAddress settles inside getCustodianApiForAddress(from): the
\* call throws, or the client is constructed, stored and returned.
SubmitGotWallet(i) ==
    LET t == tasks[i]
        key == toChecksumAddress(t.request.from)
        found == getWalletByAddress(key)
        wallet == CHOOSE w \in found : TRUE
        c == Len(clients) + 1
    IN /\ t.kind = "submitRequest" /\ t.pc = "awaitWallet"
       /\ IF found = {}
          THEN /\ tasks' = SetTask(i, Fail(t, "WalletNotFound"))
               /\ UNCHANGED <<registry, clients>>
          ELSE /\ clients' = Append(clients,
                                    getCustodianApi(key, wallet.details))
               /\ registry' = [registry EXCEPT ![key] = c]
               /\ tasks' = SetTask(i, [AfterClient(t) EXCEPT
                                          !.client = c, !.built = @ + 1])
       /\ UNCHANGED <<wallets, issued, events, dev, requests, emitted,
                      activated, sleepState>>

\* #signTransaction: getWalletByAddress(tx.from) settles, and createTransaction
\* is called with the account's deferPublication.
SubmitTxWallet(i) ==
    LET t == tasks[i]
        found == getWalletByAddress(t.request.from)
        wallet == CHOOSE w \in found : TRUE
    IN /\ t.kind = "submitRequest" /\ t.pc = "txWallet"
       /\ tasks' = SetTask(i,
            IF found = {}
            THEN Fail(t, "WalletNotFound")
            ELSE [t EXCEPT !.pc = "signing", !.capabilities = @ + 1,
                           !.txOptions =
                               <<wallet.options.deferPublication>>])
       /\ UNCHANGED <<wallets, registry, clients, issued, events, dev,
                      requests, emitted,
                      activated, sleepState>>

\* a signing step that stores the record before the custodian has answered
SubmitSigned_PersistsFirst(i, ok) ==
    LET t == tasks[i]
    IN /\ t.kind = "submitRequest" /\ t.pc = "signing"
       /\ requests' = requests \cup
             {[by |-> i, keyringRequest |-> t.request, type |-> "message",
               subType |-> "", fulfilled |-> FALSE, rejected |-> FALSE,
               signature |-> "null"]}
       /\ tasks' = SetTask(i, IF ok THEN [t EXCEPT !.pc = "upserting",
                                            !.custodianId = custodianId(i)]
                              ELSE Fail(t, "CustodianCallFailed"))
       /\ UNCHANGED <<wallets, registry, clients, issued, events, dev,
                      emitted, activated, sleepState>>

\* The custodian answers the signing call: on success upsertRequest is called.
SubmitSigned(i, ok) ==
    LET t == tasks[i]
    IN /\ t.kind = "submitRequest" /\ t.pc = "signing"
       /\ tasks' = SetTask(i, IF ok THEN [t EXCEPT !.pc = "upserting",
                                            !.custodianId = custodianId(i)]
                              ELSE Fail(t, "CustodianCallFailed"))
       /\ UNCHANGED <<wallets, registry, clients, issued, events, dev,
                      requests, emitted,
                      activated, sleepState>>

\* a record that tags every message as a personal_sign one
RequestRecord_PersonalSign(i, request) ==
    [by |-> i, keyringRequest |-> request,
     type |-> IF request.method = "eth_signTransaction"
              THEN "transaction" ELSE "message",
     subType |-> IF request.method = "eth_signTransaction"
                 THEN "" ELSE "personalSign",
     fulfilled |-> FALSE, rejected |-> FALSE,
     signature |-> IF request.method = "eth_signTransaction"
                   THEN "undefined" ELSE "null"]

\* a record that is born fulfilled
RequestRecord_Fulfilled(i, request) ==
    [by |-> i, keyringRequest |-> request, type |-> "message",
     subType |-> "", fulfilled |-> TRUE, rejected |-> FALSE,
     signature |-> "0xsignature"]

\* the argument of upsertRequest (`by` tells the submissions apart, as
\* keyringRequest.id does)
RequestRecord(i, request) ==
    [by |-> i, keyringRequest |-> request,
     type |-> IF request.method = "eth_signTransaction"
              THEN "transaction" ELSE "message",
     subType |-> CASE request.method = "personal_sign" -> "personalSign"
                   [] request.method = "eth_signTypedData_v3" -> "v3"
                   [] request.method = "eth_signTypedData_v4" -> "v4"
                   [] OTHER -> "",
     fulfilled |-> FALSE, rejected |-> FALSE,
     signature |-> IF request.method = "eth_signTransaction"
                   THEN "undefined" ELSE "null"]

\* upsertRequest settles; #asyncSubmitRequest goes on to its getAccount.
SubmitUpserted(i) ==
    LET t == tasks[i]
    IN /\ t.kind = "submitRequest" /\ t.pc = "upserting"
       /\ requests' = requests \cup {RequestRecord(i, t.request)}
       /\ tasks' = SetTask(i, [t EXCEPT !.pc = "account", !.upserts = @ + 1])
       /\ UNCHANGED <<wallets, registry, clients, issued, events, dev,
                      emitted,
                      activated, sleepState>>

\* the deep link is settled and renderInfoMessage is called
Render(t, deepLink) ==
    [t EXCEPT !.link = deepLink, !.message = InfoMessage(deepLink),
              !.pc = "rendering"]

\* a catch block that throws the error on
Fallback_Propagate(t) == Fail(t, "LinkFailed")

\* the catch block of #asyncSubmitRequest
Fallback(t) == Render(t, FallbackLink(t.custodianId))

\* upsertRequest rejects, and the error leaves #handleSigningRequest.
SubmitUpsertFailed(i) ==
    LET t == tasks[i]
    IN /\ t.kind = "submitRequest" /\ t.pc = "upserting"
       /\ tasks' = SetTask(i, Fail([t EXCEPT !.upserts = @ + 1],
                                   "PersistFailed"))
       /\ UNCHANGED <<wallets, registry, clients, issued, events, dev,
                      requests, emitted,
                      activated, sleepState>>

\* getAccount settles: the account is gone and the call throws, or the client
\* for the account's address is resolved for the link.
SubmitAccount(i) ==
    LET t == tasks[i]
        found == getAccount(t.request.account)
        account == CHOOSE w \in found : TRUE
    IN /\ t.kind = "submitRequest" /\ t.pc = "account"
       /\ tasks' = SetTask(i,
            IF found = {} THEN Fail(t, "AccountNotFound")
            ELSE Lookup(t, account.address, "linkWallet",
                        [t EXCEPT !.pc = "linking",
                                  !.capabilities = @ + 1]))
       /\ UNCHANGED <<wallets, registry, clients, issued, events, dev,
                      requests, emitted,
                      activated, sleepState>>

\* getWalletByAddress settles inside getCustodianApiForAddress(address): a
\* throw is caught and the fallback link is used.
SubmitLinkWallet(i) ==
    LET t == tasks[i]
        found == getAccount(t.request.account)
        key == toChecksumAddress((CHOOSE w \in found : TRUE).address)
        wallet == CHOOSE w \in getWalletByAddress(key) : TRUE
        c == Len(clients) + 1
    IN /\ t.kind = "submitRequest" /\ t.pc = "linkWallet"
       /\ IF found = {} \/ getWalletByAddress(key) = {}
          THEN /\ tasks' = SetTask(i, [Fallback(t) EXCEPT !.linkError = TRUE])
               /\ UNCHANGED <<registry, clients>>
          ELSE /\ clients' = Append(clients,
                                    getCustodianApi(key, wallet.details))
               /\ registry' = [registry EXCEPT ![key] = c]
               /\ tasks' = SetTask(i, [t EXCEPT !.client = c,
                              !.built = @ + 1, !.pc = "linking",
                              !.capabilities = @ + 1])
       /\ UNCHANGED <<wallets, issued, events, dev, requests, emitted,
                      activated, sleepState>>

\* The custodian answers getTransactionLink / getSignedMessageLink.
SubmitLinked(i, ok) ==
    LET t == tasks[i]
    IN /\ t.kind = "submitRequest" /\ t.pc = "linking"
       /\ tasks' = SetTask(i, IF ok
                              THEN Render(t, CustodianLink(t.custodianId))
                              ELSE [Fallback(t) EXCEPT !.linkError = TRUE])
       /\ UNCHANGED <<wallets, registry, clients, issued, events, dev,
                      requests, emitted,
                      activated, sleepState>>

\* renderInfoMessage settles and { pending: true } is returned.
SubmitRendered(i) ==
    LET t == tasks[i]
    IN /\ t.kind = "submitRequest" /\ t.pc = "rendering"
       /\ tasks' = SetTask(i, [t EXCEPT !.result = "pending", !.pc = "done"])
       /\ UNCHANGED <<wallets, registry, clients, issued, events, dev,
                      requests, emitted,
                      activated, sleepState>>

----------------------------------------------------------------------------
(* SpecSubmit: submitRequest *)

\* The account of the submitRequest tests, whose methods are two of the four,
\* and an account as createAccount makes it.
SubmitWallets ==
    { [Wallet(1, [b |-> "a1", c |-> "cs"], Details(0, "U"))
          EXCEPT !.methods = {"personal_sign", "eth_signTransaction"}],
      Wallet(2, [b |-> "a2", c |-> "cs"], Details(0, "U")) }

\* request.account: the stored accounts and the id of none
RequestAccounts == {1, 2, 99}

\* `from`: the address of a stored account, and one of no account
RequestFroms == {[b |-> "a1", c |-> "cs"], [b |-> "a4", c |-> "cs"]}

KeyringRequests ==
    [account : RequestAccounts, method : RequestMethods, from : RequestFroms]

InitSubmit ==
    /\ wallets = SubmitWallets
    /\ registry = [a \in Address |-> NoClient]
    /\ clients = <<>>
    /\ issued = [u \in Urls |-> 0]
    /\ tasks = <<>>
    /\ events = <<>>
    /\ dev \in BOOLEAN
    /\ requests = {}
    /\ emitted = <<>>
    /\ activated = TRUE
    /\ sleepState = FALSE

NextSubmit ==
    \/ \E r \in KeyringRequests : SubmitRequest(r)
    \/ \E i \in TaskIds : SubmitValidated(i)
    \/ \E i \in TaskIds : SubmitGotWallet(i)
    \/ \E i \in TaskIds : SubmitTxWallet(i)
    \/ \E i \in TaskIds : \E ok \in BOOLEAN : SubmitSigned(i, ok)
    \/ \E i \in TaskIds : SubmitUpserted(i)
    \/ \E i \in TaskIds : SubmitUpsertFailed(i)
    \/ \E i \in TaskIds : SubmitAccount(i)
    \/ \E i \in TaskIds : SubmitLinkWallet(i)
    \/ \E i \in TaskIds : \E ok \in BOOLEAN : SubmitLinked(i, ok)
    \/ \E i \in TaskIds : SubmitRendered(i)
    \/ \E id \in {w.id : w \in wallets} :
          /\ OpsOf("deleteAccount") = {}
          /\ DeleteAccount(id)
    \/ \E i \in TaskIds : DeleteRemoved(i)
    \/ \E i \in TaskIds : DeleteCommitted(i)
    \/ \E i \in TaskIds : DeleteRejected(i)

SpecSubmit == InitSubmit /\ [][NextSubmit]_vars

----------------------------------------------------------------------------
(* CustodialKeyring.getConnectedAccounts *)

\* wallet.account
Account(w) ==
    [id |-> w.id, address |-> w.address, methods |-> w.methods,
     options |-> w.options]

\* the filter that does not look at the origin
MatchingWallet_AnyOrigin(wallet, details, origin) ==
    /\ wallet.details.token = details.token
    /\ wallet.details.custodianApiUrl = details.custodianApiUrl
    /\ wallet.details.custodianType = details.custodianType
    /\ wallet.details.custodianEnvironment = details.custodianEnvironment

\* the predicate of wallets.filter
MatchingWallet(wallet, details, origin) ==
    /\ wallet.details.token = details.token
    /\ wallet.details.custodianApiUrl = details.custodianApiUrl
    /\ wallet.details.custodianType = details.custodianType
    /\ wallet.details.custodianEnvironment = details.custodianEnvironment
    /\ wallet.options.importOrigin = origin

\* matchingWallets.map(wallet => wallet.account), in the order of the list
ConnectedAccounts(ws, details, origin) ==
    LET matchingWallets ==
            InOrder({w \in ws : MatchingWallet(w, details, origin)})
    IN [k \in 1..Len(matchingWallets) |-> Account(matchingWallets[k])]

\* getConnectedAccounts(details, origin) up to the await of listWallets
GetConnectedAccountsTask(details, origin) ==
    [kind |-> "getConnectedAccounts", details |-> details, origin |-> origin,
     pc |-> "listing", err |-> "", listed |-> {}, result |-> <<>>]

GetConnectedAccounts(details, origin) ==
    /\ Cardinality(Ops) < MaxReadOps
    /\ tasks' = Append(tasks, GetConnectedAccountsTask(details, origin))
    /\ UNCHANGED <<wallets, registry, clients, issued, events, dev, requests,
                   emitted,
                      activated, sleepState>>

\* listWallets settles and the matching accounts are returned.
ConnectedListed(i) ==
    LET t == tasks[i]
    IN /\ t.kind = "getConnectedAccounts" /\ t.pc = "listing"
       /\ tasks' = SetTask(i, [t EXCEPT
              !.listed = listWallets,
              !.result = ConnectedAccounts(listWallets, t.details, t.origin),
              !.pc = "done"])
       /\ UNCHANGED <<wallets, registry, clients, issued, events, dev,
                      requests, emitted,
                      activated, sleepState>>

----------------------------------------------------------------------------
(* CustodialKeyring.updateAccount, approveRequest, rejectRequest *)

\* a call that throws before its first await
Thrown(kind, arg, err) ==
    [kind |-> kind, arg |-> arg, pc |-> "failed", err |-> err]

UpdateAccount(account) ==
    /\ Cardinality(Ops) < MaxReadOps
    /\ tasks' = Append(tasks, Thrown("updateAccount", account,
                                     "MethodNotFound"))
    /\ UNCHANGED <<wallets, registry, clients, issued, events, dev, requests,
                   emitted,
                      activated, sleepState>>

\* an approveRequest that resolves the request
ApproveRequest_Fulfils(id) ==
    /\ Cardinality(Ops) < MaxReadOps
    /\ tasks' = Append(tasks, [Thrown("approveRequest", id, "")
                                  EXCEPT !.pc = "done"])
    /\ requests' = {IF r.by = id THEN [r EXCEPT !.fulfilled = TRUE] ELSE r :
                       r \in requests}
    /\ UNCHANGED <<wallets, registry, clients, issued, events, dev, emitted,
                      activated, sleepState>>

ApproveRequest(id) ==
    /\ Cardinality(Ops) < MaxReadOps
    /\ tasks' = Append(tasks, Thrown("approveRequest", id,
                                     "Method not implemented."))
    /\ UNCHANGED <<wallets, registry, clients, issued, events, dev, requests,
                   emitted,
                      activated, sleepState>>

RejectRequest(id) ==
    /\ Cardinality(Ops) < MaxReadOps
    /\ tasks' = Append(tasks, Thrown("rejectRequest", id,
                                     "Method not implemented."))
    /\ UNCHANGED <<wallets, registry, clients, issued, events, dev, requests,
                   emitted,
                      activated, sleepState>>

----------------------------------------------------------------------------
(* SpecRead: getConnectedAccounts and the unsupported methods *)

\* Two wallets onboarded in one session from one origin, and a third that
\* differs from them in every value getConnectedAccounts compares.
ReadWallets ==
    { Wallet(1, [b |-> "a1", c |-> "cs"], Details(0, "U")),
      Wallet(2, [b |-> "a2", c |-> "cs"], Details(0, "U")),
      [Wallet(3, [b |-> "a3", c |-> "cs"], Details(1, "V")) EXCEPT
          !.details.custodianType = "ECA1",
          !.details.custodianEnvironment = "env2",
          !.options.importOrigin = "other"] }

\* ConnectionStatusRpcRequest
ConnectionDetails ==
    [token : {0, 1}, custodianApiUrl : Urls, custodianType : {"ECA3", "ECA1"},
     custodianEnvironment : {"env", "env2"}]

Origins == {"origin", "other"}

\* a request an earlier submission for account 1 has left pending
ReadRequests ==
    {RequestRecord(0, [account |-> 1, method |-> "personal_sign",
                       from |-> [b |-> "a1", c |-> "cs"]])}

\* the ids given to approveRequest and rejectRequest: that of the pending
\* request, and that of none
RequestIds == {0, 99}

\* The keyring after a client for a1 was constructed.
InitRead ==
    /\ wallets = ReadWallets
    /\ clients = <<getCustodianApi([b |-> "a1", c |-> "cs"], Details(0, "U"))>>
    /\ registry = [a \in Address |->
                      IF a = [b |-> "a1", c |-> "cs"] THEN 1 ELSE NoClient]
    /\ issued = [u \in Urls |-> 0]
    /\ tasks = <<>>
    /\ events = <<>>
    /\ dev = FALSE
    /\ requests = ReadRequests
    /\ emitted = <<>>
    /\ activated = TRUE
    /\ sleepState = FALSE

NextRead ==
    \/ \E d \in ConnectionDetails : \E o \in Origins :
          GetConnectedAccounts(d, o)
    \/ \E i \in TaskIds : ConnectedListed(i)
    \/ \E id \in RequestAccounts : UpdateAccount(id)
    \/ \E id \in RequestIds : ApproveRequest(id)
    \/ \E id \in RequestIds : RejectRequest(id)
    \/ \E id \in {w.id : w \in wallets} :
          /\ Cardinality(Ops) < MaxReadOps
          /\ DeleteAccount(id)
    \/ \E i \in TaskIds : DeleteRemoved(i)
    \/ \E i \in TaskIds : DeleteCommitted(i)
    \/ \E i \in TaskIds : DeleteRejected(i)

SpecRead == InitRead /\ [][NextRead]_vars

----------------------------------------------------------------------------
(* Claims about getConnectedAccounts and the unsupported methods *)

Queries == OpsOf("getConnectedAccounts")

\* the wallets of the list the call read that agree with its arguments in all
\* five values
Connected(i) ==
    {w \in tasks[i].listed :
        /\ w.details.token = tasks[i].details.token
        /\ w.details.custodianApiUrl = tasks[i].details.custodianApiUrl
        /\ w.details.custodianType = tasks[i].details.custodianType
        /\ w.details.custodianEnvironment =
               tasks[i].details.custodianEnvironment
        /\ w.options.importOrigin = tasks[i].origin}

\* a step of a getConnectedAccounts call
QueryStep ==
    \/ /\ Len(tasks') > Len(tasks)
       /\ tasks'[Len(tasks')].kind = "getConnectedAccounts"
    \/ \E i \in Queries : tasks'[i] # tasks[i]

\* C14: getConnectedAccounts(details, origin) returns exactly the accounts of
\* the stored wallets whose token, custodianApiUrl, custodianType and
\* custodianEnvironment equal those of details and whose importOrigin equals
\* origin (a wallet differing in one of the five is left out), and no step of
\* the call changes the stored wallets, the request records or the registry.
C14_ConnectedAccounts ==
    /\ [](\A i \in Queries :
            tasks[i].pc = "done"
            => /\ Len(tasks[i].result) = Cardinality(Connected(i))
               /\ {tasks[i].result[k] : k \in 1..Len(tasks[i].result)}
                     = {Account(w) : w \in Connected(i)})
    /\ [][QueryStep => UNCHANGED <<wallets, requests, registry, clients>>]_vars

\* a call has returned the accounts of both wallets of one session, leaving
\* out the third wallet, and a call that differs from those two wallets in
\* the origin alone has returned nothing
C14_Witness ==
    \E i, j \in Queries :
        /\ tasks[i].pc = "done"
        /\ Len(tasks[i].result) = 2
        /\ Cardinality(tasks[i].listed) = 3
        /\ tasks[j].pc = "done"
        /\ tasks[j].details = Details(0, "U")
        /\ tasks[j].origin = "other"
        /\ tasks[j].listed = tasks[i].listed
        /\ tasks[j].result = <<>>

Unsupported ==
    OpsOf("updateAccount") \cup OpsOf("approveRequest")
        \cup OpsOf("rejectRequest")

\* a step of an updateAccount, approveRequest or rejectRequest call
UnsupportedStep ==
    \/ /\ Len(tasks') > Len(tasks)
       /\ tasks'[Len(tasks')].kind \in
              {"updateAccount", "approveRequest", "rejectRequest"}
    \/ \E i \in Unsupported : tasks'[i] # tasks[i]

\* C15: updateAccount, approveRequest and rejectRequest fail for every input
\* in every state, and leave the accounts and wallets, the request records
\* and the client registry as they were.
C15_UnsupportedMethodsFail ==
    /\ [](\A i \in Unsupported :
             /\ tasks[i].pc = "failed"
             /\ tasks[i].err # "")
    /\ [][UnsupportedStep
            => UNCHANGED <<wallets, requests, registry, clients>>]_vars

\* approveRequest was called for the pending request and updateAccount for a
\* stored account, with a client in the registry
C15_Witness ==
    /\ \E i \in OpsOf("approveRequest") :
          /\ tasks[i].pc = "failed"
          /\ \E r \in requests : r.by = tasks[i].arg /\ ~r.fulfilled
    /\ \E i \in OpsOf("updateAccount") :
          /\ tasks[i].pc = "failed"
          /\ getAccount(tasks[i].arg) # {}
    /\ \E a \in Address : registry[a] # NoClient

----------------------------------------------------------------------------
(* Claims about submitRequest *)

Submits == OpsOf("submitRequest")

\* the submitRequest calls whose validation has run
Validated == {i \in Submits : tasks[i].pc # "validating"}

\* the account request.account identifies, as the keyring was constructed
TargetAccount(i) == {w \in SubmitWallets : w.id = tasks[i].request.account}

\* the call resolved no client, called no capability and persisted no record
Untouched(i) ==
    /\ tasks[i].lookups = 0
    /\ tasks[i].built = 0
    /\ tasks[i].client = NoClient
    /\ tasks[i].capabilities = 0
    /\ \A r \in requests : r.by # i

\* C5: a submitRequest for a method that is not in the methods of the account
\* it names fails with the unsupported-method error, and the call looks up and
\* constructs no custodian client, invokes no custodian capability and
\* persists no request record.
C5_UnsupportedMethodRejected ==
    \A i \in Validated :
        (/\ tasks[i].found
         /\ \E w \in TargetAccount(i) : tasks[i].request.method \notin w.methods)
        => /\ tasks[i].pc = "failed"
           /\ tasks[i].err = "MethodNotSupported"
           /\ Untouched(i)

\* a call for eth_signTypedData_v4 on the account of two methods has failed
\* with the unsupported-method error
C5_Witness ==
    \E i \in Validated :
        /\ tasks[i].found
        /\ tasks[i].request.account = 1
        /\ tasks[i].request.method = "eth_signTypedData_v4"
        /\ tasks[i].err = "MethodNotSupported"

\* C6: a submitRequest whose request.account identifies no account fails with
\* the account-not-found error, before a custodian client is resolved, a
\* custodian capability is invoked or a request record is persisted.
C6_UnknownAccountRejected ==
    \A i \in Validated :
        ~tasks[i].found
        => /\ tasks[i].pc = "failed"
           /\ tasks[i].err = "AccountNotFound"
           /\ Untouched(i)

\* a call for a supported method on the id of no account has failed with the
\* account-not-found error
C6_Witness ==
    \E i \in Validated :
        /\ tasks[i].request.account = 99
        /\ tasks[i].request.method = "personal_sign"
        /\ ~tasks[i].found
        /\ tasks[i].err = "AccountNotFound"

\* C11: when the signing call succeeded and the link call, or the client
\* lookup for it, fails, the call does not fail: the message rendered is that
\* of the fallback link {"Complete in Custodian App", custodianId, "", "view"}
\* and the call returns { pending: true }.
C11_FallbackLink ==
    \A i \in Submits :
        tasks[i].linkError
        => /\ tasks[i].custodianId = custodianId(i)
           /\ tasks[i].pc \in {"rendering", "done"}
           /\ tasks[i].err = ""
           /\ tasks[i].link = [text |-> "Complete in Custodian App",
                               id |-> tasks[i].custodianId,
                               url |-> "", action |-> "view"]
           /\ tasks[i].message = InfoMessage(tasks[i].link)
           /\ tasks[i].pc = "done" => tasks[i].result = "pending"

\* a call whose account was deleted under it could not resolve the client for
\* the link, and has returned
C11_Witness ==
    \E i \in Submits :
        /\ tasks[i].linkError
        /\ tasks[i].pc = "done"
        /\ tasks[i].lookups = 2
        /\ tasks[i].built = 1
        /\ tasks[i].capabilities = 1
        /\ getAccount(tasks[i].request.account) = {}

\* the request records of submission i
RecordsOf(i) == {r \in requests : r.by = i}

\* C12: a submitRequest call that returns returns { pending: true }, never a
\* signature, and has persisted exactly one request record for its
\* submission, with fulfilled = false and rejected = false, and with
\* signature = null when it is a message.
C12_PendingWithOneRecord ==
    \A i \in Submits :
        tasks[i].pc = "done"
        => /\ tasks[i].result = "pending"
           /\ tasks[i].upserts = 1
           /\ Cardinality(RecordsOf(i)) = 1
           /\ \A r \in RecordsOf(i) :
                 /\ r.keyringRequest = tasks[i].request
                 /\ ~r.fulfilled
                 /\ ~r.rejected
                 /\ r.type = "message" => r.signature = "null"

\* a personal_sign submission has returned with the custodian's link shown
\* and its record stored
C12_Witness ==
    \E i \in Submits :
        /\ tasks[i].pc = "done"
        /\ tasks[i].request.method = "personal_sign"
        /\ tasks[i].link.action = "custodian action"
        /\ \E r \in RecordsOf(i) : r.subType = "personalSign"

----------------------------------------------------------------------------
(* Claims about createAccount *)

Creates == {i \in TaskIds : tasks[i].kind = "createAccount"}

CreatedEvents(i) ==
    {emitted[n] : n \in {m \in 1..Len(emitted) :
                            /\ emitted[m].event = "AccountCreated"
                            /\ emitted[m].by = i}}

StoredBy(i) == {w \in wallets : w.id = uuid(i)}

\* C7: a createAccount whose address belongs to a wallet of the list it read
\* fails with the duplicate-address error, has handed no AccountCreated event
\* to the client and has stored no wallet.
C7_DuplicateAddressRejected ==
    \A i \in Creates :
        tasks[i].options.address \in {w.address : w \in tasks[i].listed} =>
            /\ tasks[i].pc = "failed"
            /\ tasks[i].err = "DuplicateAddress"
            /\ CreatedEvents(i) = {}
            /\ StoredBy(i) = {}

\* C7 witness: a createAccount has failed on an address in use.
C7_Witness ==
    \E i \in Creates :
        /\ tasks[i].pc = "failed" /\ tasks[i].err = "DuplicateAddress"
        /\ tasks[i].options.address \in {w.address : w \in tasks[i].listed}

\* C8: no two stored wallets have the same address.
C8_AddressesUnique ==
    \A v \in wallets : \A w \in wallets : v.address = w.address => v = w

\* C9: a wallet is stored only by a createAccount whose AccountCreated event
\* was accepted; a createAccount whose event was refused has failed and has
\* stored nothing, and where it is the only call the stored wallets are those
\* of before the call.
C9_ProposeThenCommit ==
    \A i \in Creates :
        /\ StoredBy(i) # {} => tasks[i].verdict = "accepted"
        /\ tasks[i].verdict = "rejected" =>
               /\ tasks[i].pc = "failed"
               /\ StoredBy(i) = {}
               /\ Cardinality(Ops) = 1 => wallets = AccountWallets

\* C9 witness: the client has refused an account and createAccount has failed.
C9_Witness ==
    \E i \in Creates :
        /\ tasks[i].verdict = "rejected" /\ tasks[i].pc = "failed"
        /\ CreatedEvents(i) # {}

AllowListed(url) ==
    {custodianMetadata[n].name : n \in {m \in 1..Len(custodianMetadata) :
                                     custodianMetadata[m].apiBaseUrl = url}}

----------------------------------------------------------------------------
(* Claims about deleteAccount *)

Deletes == OpsOf("deleteAccount")

\* another deleteAccount call for the account of call i has committed
DeletedByOther(i) ==
    \E j \in Deletes \ {i} : tasks[j].id = tasks[i].id /\ tasks[j].pc = "done"

\* C16: deleteAccount removes the account and notifies of it inside one
\* withTransaction scope: when the removal or the notification fails the call
\* fails and the account is still stored, no state shows the account removed
\* by a call that has not succeeded, and when both succeed the account is
\* gone.
C16_DeleteAtomic ==
    \A i \in Deletes :
        /\ tasks[i].pc = "done" => ~\E w \in wallets : w.id = tasks[i].id
        /\ (tasks[i].pc # "done" /\ tasks[i].present /\ ~DeletedByOther(i))
              => \E w \in wallets : w.id = tasks[i].id
        /\ tasks[i].pc = "failed"
              => tasks[i].err \in {"RemoveFailed", "Rejected"}

\* a deleteAccount for a stored account has failed at the notification, after
\* its removeAccounts, and the account is stored
C16_Witness ==
    \E i \in Deletes :
        /\ tasks[i].pc = "failed"
        /\ tasks[i].err = "Rejected"
        /\ tasks[i].present
        /\ \E e \in 1..Len(emitted) :
              emitted[e].event = "AccountDeleted" /\ emitted[e].by = i
        /\ \E w \in wallets : w.id = tasks[i].id

----------------------------------------------------------------------------
(* Claims about the registry's keys *)

Uses == OpsOf("use")

\* the calls up to call j for the address of call j, in whatever case
SameAddress(j) ==
    {k \in Uses : k <= j /\ tasks[k].address.b = tasks[j].address.b}

\* C17: a call of getCustodianApiForAddress with a case variant of an address
\* returns the client instance the call with the checksum form returned: of
\* calls made one after the other, with no rotation before the later one,
\* the later one is handed the client of the earlier one and constructs none.
C17_CaseVariantsShareClient ==
    \A j \in Uses : \A i \in SameAddress(j) :
        (/\ tasks[j].ev = 0
         /\ \A k \in SameAddress(j) : tasks[k].alone
         /\ tasks[i].pc # "awaitWallet"
         /\ tasks[j].pc # "awaitWallet")
        => /\ tasks[j].client = tasks[i].client
           /\ tasks[j].client # NoClient
                 => clients[tasks[j].client].key =
                        [b |-> tasks[j].address.b, c |-> "cs"]
           /\ tasks[j].client = NoClient
                 => getWalletByAddress([b |-> tasks[j].address.b,
                                        c |-> "cs"]) = {}

\* the checksum form and then the lowercase form of a stored wallet's address
\* were looked up, and both calls hold the one client constructed
C17_Witness ==
    \E i, j \in Uses :
        /\ i < j
        /\ tasks[i].address = [b |-> "a1", c |-> "cs"]
        /\ tasks[j].address = [b |-> "a1", c |-> "lc"]
        /\ tasks[j].alone
        /\ tasks[i].client # NoClient
        /\ tasks[j].client = tasks[i].client
        /\ Len(clients) = 1

----------------------------------------------------------------------------
(* Claims about getAccessToken *)

\* call i starts getAccessToken in this step: it is handed its client
TokenStart(i) ==
    /\ i \in DOMAIN tasks' /\ tasks'[i].kind = "use"
    /\ tasks'[i].client # NoClient
    /\ (i \in DOMAIN tasks => tasks[i].client = NoClient)

\* the client of call i as it is when getAccessToken starts: the registry's,
\* or the one constructed in this step
ClientAtStart(i) ==
    IF tasks'[i].client \in DOMAIN clients
    THEN clients[tasks'[i].client]
    ELSE clients'[tasks'[i].client]

\* the cache holds a token obtained with a positive TTL that has not elapsed
FreshToken(client) ==
    client.cached /\ client.cacheAge > 0 /\ client.age < client.cacheAge

\* C18: a getAccessToken call that finds a cached access token obtained
\* with a positive TTL, with now < issuedAt + ttl, returns the cached token:
\* it posts no refresh grant, emits no event and leaves the held refresh
\* token (and every client) as it was.
C18_CachedTokenReturned ==
    [][\A i \in DOMAIN tasks' :
          (TokenStart(i) /\ FreshToken(ClientAtStart(i)))
          => /\ tasks'[i].pc = "done" /\ tasks'[i].rpc
             /\ tasks'[i].sent = NoToken /\ tasks'[i].response = ""
             /\ tasks'[i].expired = <<>>
             /\ UNCHANGED <<clients, events, issued>>]_vars

\* a call was answered from a cache whose token had a lifetime of 2, after
\* one unit of it had passed
C18_Witness ==
    \E i \in TaskIds :
        /\ tasks[i].kind = "use" /\ tasks[i].pc = "done"
        /\ tasks[i].sent = NoToken /\ tasks[i].rpc
        /\ clients[tasks[i].client].cacheAge = 2
        /\ clients[tasks[i].client].age = 1

\* call i gets to issue its protocol call in this step
ProtocolCall(i) ==
    /\ i \in DOMAIN tasks' /\ tasks'[i].kind = "use" /\ tasks'[i].rpc
    /\ (i \in DOMAIN tasks => ~tasks[i].rpc)

\* call i has posted a refresh grant and awaits the answer
GrantPosted(i) ==
    /\ i \in DOMAIN tasks /\ tasks[i].kind = "use"
    /\ tasks[i].pc = "fetching" /\ tasks[i].sent # NoToken

\* C19: a getAccessToken call that finds no cached token, or one whose
\* lifetime has elapsed (now >= issuedAt + ttl), or one whose declared TTL
\* was zero or undefined, does not return a cached token: it posts a
\* refresh grant with the refresh token the client holds. No call issues
\* its protocol call unless its cache was fresh when it started or it has
\* posted a grant, which was answered in this step.
C19_StaleCacheRefreshed ==
    [][/\ \A i \in DOMAIN tasks' :
             (TokenStart(i) /\ ~FreshToken(ClientAtStart(i)))
             => /\ tasks'[i].pc = "fetching" /\ ~tasks'[i].rpc
                /\ tasks'[i].sent = ClientAtStart(i).refreshToken
       /\ \A i \in DOMAIN tasks' :
             ProtocolCall(i)
             => \/ TokenStart(i) /\ FreshToken(ClientAtStart(i))
                \/ GrantPosted(i) /\ tasks'[i].response = "ok"]_vars

\* The registry's client was found with a zero TTL, with an elapsed token
\* and with an undefined TTL, each by a call that then posted a grant. The
\* call posted the refresh token that the first call's grant had rotated
\* in, so it started after that grant had filled the cache.
StaleStart(i, age) ==
    /\ tasks[i].kind = "use" /\ tasks[i].pc = "fetching"
    /\ tasks[1].kind = "use" /\ tasks[1].pc = "done"
    /\ tasks[i].client = tasks[1].client
    /\ tasks[1].sent # NoToken /\ tasks[i].sent > tasks[1].sent
    /\ clients[tasks[i].client].cached
    /\ clients[tasks[i].client].cacheAge = age

C19_Witness ==
    \E i \in TaskIds : StaleStart(i, 0)

C19_WitnessElapsed ==
    \E i \in TaskIds :
        /\ StaleStart(i, 1) /\ clients[tasks[i].client].age = 1

C19_WitnessUndefined ==
    \E i \in TaskIds : StaleStart(i, NoAge)

\* the refresh endpoint answers call i's grant with status 401 and a url
\* field in this step
Refused401Url(i) ==
    /\ GrantPosted(i)
    /\ tasks'[i].response = "401 url" /\ tasks[i].response = ""

\* the event payload a client holding refresh token held must emit for url:
\* the digest of the token and the url
HashedPayload(held, url) ==
    [url |-> url, oldRefreshToken |-> Digests + held]

\* C20: when the refresh endpoint answers a grant with status 401 and a url
\* field, getAccessToken emits exactly one TokenExpired event, carrying the
\* url and a hash of (held refresh token + url) and not the refresh token
\* itself, and fails; it emits no RefreshTokenRotated event, keeps the held
\* refresh token and the cache as they were, and the call that triggered it
\* neither posts another grant nor issues its protocol call, then or later.
C20_TokenExpired ==
    /\ [][\A i \in DOMAIN tasks :
             Refused401Url(i)
             => /\ tasks'[i].expired =
                       <<HashedPayload(clients[tasks[i].client].refreshToken,
                                       OnboardingUrl)>>
                /\ tasks'[i].expired[1].oldRefreshToken \notin Tokens
                /\ tasks'[i].pc = "failed" /\ ~tasks'[i].rpc
                /\ tasks'[i].sent = tasks[i].sent
                /\ Len(tasks') = Len(tasks)
                /\ UNCHANGED <<clients, events, issued, wallets, registry>>
         ]_vars
    /\ [][\A i \in DOMAIN tasks :
             (tasks[i].kind = "use" /\ tasks[i].response = "401 url")
             => tasks'[i] = tasks[i]]_vars

\* a grant posted with a refresh token that another call's grant had
\* rotated out was answered with status 401 and a url
C20_Witness ==
    \E i \in TaskIds :
        /\ tasks[i].kind = "use" /\ tasks[i].response = "401 url"
        /\ tasks[i].pc = "failed" /\ Len(tasks[i].expired) = 1
        /\ clients[tasks[i].client].refreshToken # tasks[i].sent

\* the refresh endpoint grants call i's request in this step
GrantedStep(i) ==
    /\ GrantPosted(i)
    /\ tasks'[i].response = "ok" /\ tasks[i].response = ""

\* the newest refresh token of the session of call i's client after this
\* step: the one a granting answer carries, when it carries one
Answered(i) == issued'[clients[tasks[i].client].apiUrl]

\* C21: when a granting answer carries a refresh token other than the one
\* the client holds, the client takes it and emits RefreshTokenRotated
\* {apiUrl, oldRefreshToken, newRefreshToken} once, in the step in which
\* the call gets its access token, with the token held before and the one
\* held after; when the answer carries no refresh token or the held one,
\* no event is emitted and the held token stays.  No event is emitted in
\* any other step.
C21_RotationEmittedOnce ==
    [][/\ \A i \in DOMAIN tasks :
             GrantedStep(i)
             => LET c == tasks[i].client
                    held == clients[c].refreshToken
                IN /\ tasks'[i].pc = "done" /\ tasks'[i].rpc
                   /\ IF Answered(i) # held
                      THEN /\ clients'[c].refreshToken = Answered(i)
                           /\ events' = Append(events,
                                 [apiUrl |-> clients[c].apiUrl,
                                  oldRefreshToken |-> held,
                                  newRefreshToken |->
                                      clients'[c].refreshToken])
                      ELSE /\ clients'[c].refreshToken = held
                           /\ events' = events
       /\ events' # events => \E i \in DOMAIN tasks : GrantedStep(i)]_vars

\* a call's grant rotated the token: the client holds the new one and the
\* one event names the token the call had posted as the old one
C21_Witness ==
    \E i \in TaskIds :
        /\ tasks[i].kind = "use" /\ tasks[i].response = "ok"
        /\ Len(events) = 1
        /\ events[1].oldRefreshToken = tasks[i].sent
        /\ events[1].newRefreshToken = clients[tasks[i].client].refreshToken
        /\ events[1].newRefreshToken # tasks[i].sent

\* a call's grant was answered with the held token or none: no event
C21_WitnessSame ==
    \E i \in TaskIds :
        /\ tasks[i].kind = "use" /\ tasks[i].response = "ok"
        /\ events = <<>>

----------------------------------------------------------------------------
(* index.ts: onRpcRequest and handleOnboarding *)

\* the origins of the entry-point tests
RpcOrigins == {"https://example.com", "unauthorized-origin"}

\* InternalMethod.Onboard, InternalMethod.GetIsSupported, and a method the
\* snap does not have
RpcMethods == {"authentication.onboard", "authentication.getIsSupported",
               "unsupported_method"}

\* the keyring methods of the entry-point tests
KeyringMethods == {"keyring_listAccounts", "keyring_deleteAccount"}

\* a permission check that lets every origin call every method
hasPermission_Always(origin, method) == TRUE

\* hasPermission(origin, method): the origin is listed for the method
hasPermission(origin, method) ==
    /\ origin = "https://example.com"
    /\ method \in (RpcMethods \cup KeyringMethods) \ {"unsupported_method"}

\* CustodianType, and a value that is none of them
CustodianTypes == {"ECA3", "UNSUPPORTED"}

\* assert(request, OnBoardingRpcRequest)
ValidOnboarding(request) == request.custodianType = "ECA3"

\* the accounts the custodian lists for the onboarding token, in its order
CustodianAccounts ==
    << [b |-> "a1", c |-> "cs"], [b |-> "a2", c |-> "cs"],
       [b |-> "a3", c |-> "cs"] >>

\* the sequences of at most two different elements of S
Orders(S) ==
    {<<>>} \cup {<<x>> : x \in S}
           \cup {p \in {<<x, y>> : x \in S, y \in S} : p[1] # p[2]}

\* accounts.filter(account => account.address !== existingAccount.address),
\* for every existing account
FilterExisting(accounts, existing) ==
    SelectSeq(accounts, LAMBDA a : \A w \in existing : w.address # a)

\* a listener that leaves the request as it was
OnTokenChange_Ignore(request, event) == request

\* the REFRESH_TOKEN_CHANGE_EVENT listener of handleOnboarding
OnTokenChange(request, event) ==
    [request EXCEPT !.token = event.newRefreshToken]

\* accountsToAdd: one CreateAccountOptions per selected account, each with a
\* copy of the request as its details
AccountsToAdd(selection, request, origin) ==
    [k \in 1..Len(selection) |->
        [address |-> selection[k], url |-> request.custodianApiUrl,
         env |-> request.custodianEnvironment, token |-> request.token,
         origin |-> origin]]

\* an error message that names the first failed account only
ErrorMessage_FirstOnly(failedAccounts) ==
    << <<"Failed to add account", failedAccounts[1].account.address,
         failedAccounts[1].error>> >>

\* failedAccounts.map(...).join('\n'), as the sequence of its lines
ErrorMessage(failedAccounts) ==
    [k \in 1..Len(failedAccounts) |->
        <<"Failed to add account", failedAccounts[k].account.address,
          failedAccounts[k].error>>]

RpcTask(origin, method, params) ==
    [kind |-> "onRpcRequest", origin |-> origin, method |-> method,
     supplied |-> params, request |-> params, pc |-> "permission",
     err |-> "", held |-> NoToken, rotations |-> <<>>, accounts |-> <<>>,
     toAdd |-> <<>>, children |-> <<>>, added |-> <<>>, failed |-> <<>>,
     errorMessages |-> <<>>, result |-> <<>>, woke |-> FALSE]

\* onRpcRequest({origin, request}) up to its first await: the throw for an
\* origin without permission, the dispatch on the method, and for an
\* onboarding the two asserts and the call of setActivated(true)
OnRpcRequest(origin, method, params) ==
    LET t == RpcTask(origin, method, params)
        t2 == IF ~hasPermission(origin, method)
              THEN [t EXCEPT !.pc = "failed", !.err = "Unauthorized"]
              ELSE IF method = "authentication.getIsSupported"
              THEN [t EXCEPT !.pc = "done", !.result = <<TRUE>>]
              ELSE IF method # "authentication.onboard"
              THEN [t EXCEPT !.pc = "failed", !.err = "MethodNotFound"]
              ELSE IF ~ValidOnboarding(params)
              THEN [t EXCEPT !.pc = "failed", !.err = "InvalidRequest"]
              ELSE [t EXCEPT !.pc = "activating"]
    IN /\ tasks' = Append(tasks, t2)
       /\ UNCHANGED <<wallets, registry, clients, issued, events, dev,
                      requests, emitted, activated, sleepState>>

\* setActivated(true) settles, and setSleepState(false) is called.
OnboardActivated(i) ==
    LET t == tasks[i]
    IN /\ t.kind = "onRpcRequest" /\ t.pc = "activating"
       /\ activated' = TRUE
       /\ tasks' = SetTask(i, [t EXCEPT !.pc = "waking"])
       /\ UNCHANGED <<wallets, registry, clients, issued, events, dev,
                      requests, emitted, sleepState>>

\* setSleepState(false) settles; the onboarding client is constructed with
\* the request's token, the listener is subscribed, and getEthereumAccounts
\* starts with getAccessToken, which posts the refresh grant.
OnboardAwake(i) ==
    LET t == tasks[i]
    IN /\ t.kind = "onRpcRequest" /\ t.pc = "waking"
       /\ sleepState' = FALSE
       /\ tasks' = SetTask(i, [t EXCEPT !.held = t.request.token,
                                        !.woke = TRUE, !.pc = "fetching"])
       /\ UNCHANGED <<wallets, registry, clients, issued, events, dev,
                      requests, emitted, activated>>

\* The refresh endpoint grants the onboarding client's request, with
\* refresh_token rt: on a rotation the client takes the token and emits the
\* event, which the listener handles; the accounts are then asked for.
OnboardGranted(i, rt) ==
    LET t == tasks[i]
        event == [apiUrl |-> t.request.custodianApiUrl,
                  oldRefreshToken |-> t.held, newRefreshToken |-> rt]
    IN /\ t.kind = "onRpcRequest" /\ t.pc = "fetching"
       /\ rt \in {NoToken, t.held, t.held + 1}
       /\ tasks' = SetTask(i,
            IF Rotated(t.held, rt)
            THEN [t EXCEPT !.held = rt,
                           !.rotations = Append(@, event),
                           !.request = OnTokenChange(t.request, event),
                           !.pc = "listing"]
            ELSE [t EXCEPT !.pc = "listing"])
       /\ UNCHANGED <<wallets, registry, clients, issued, events, dev,
                      requests, emitted, activated, sleepState>>

\* The refresh endpoint refuses: getEthereumAccounts throws.
OnboardGrantFailed(i) ==
    LET t == tasks[i]
    IN /\ t.kind = "onRpcRequest" /\ t.pc = "fetching"
       /\ tasks' = SetTask(i, [t EXCEPT !.pc = "failed",
                                        !.err = "AccessTokenRequestFailed"])
       /\ UNCHANGED <<wallets, registry, clients, issued, events, dev,
                      requests, emitted, activated, sleepState>>

\* The custodian lists its accounts, and keyring.listAccounts is called.
OnboardListed(i) ==
    LET t == tasks[i]
    IN /\ t.kind = "onRpcRequest" /\ t.pc = "listing"
       /\ tasks' = SetTask(i, [t EXCEPT !.accounts = CustodianAccounts,
                                        !.pc = "filtering"])
       /\ UNCHANGED <<wallets, registry, clients, issued, events, dev,
                      requests, emitted, activated, sleepState>>

\* listAccounts settles: the accounts the keyring has are filtered out and
\* the rest is offered to the user.
OnboardFiltered(i) ==
    LET t == tasks[i]
    IN /\ t.kind = "onRpcRequest" /\ t.pc = "filtering"
       /\ tasks' = SetTask(i,
            [t EXCEPT !.accounts = FilterExisting(t.accounts, wallets),
                      !.pc = "choosing"])
       /\ UNCHANGED <<wallets, registry, clients, issued, events, dev,
                      requests, emitted, activated, sleepState>>

\* createAccount is called for the account at position k of accountsToAdd.
StartCreate(i, t, k) ==
    Append(SetTask(i, [t EXCEPT !.children = Append(@, Len(tasks) + 1),
                                !.pc = "creating"]),
           CreateAccountTask(t.toAdd[k]))

\* The loop is over: the error message is rendered when an account failed,
\* and otherwise the added accounts are returned.
EndOfLoop(t) ==
    IF Len(t.failed) > 0
    THEN [t EXCEPT !.errorMessages = Append(@, ErrorMessage(t.failed)),
                   !.pc = "rendering"]
    ELSE [t EXCEPT !.result = t.added, !.pc = "done"]

\* renderOnboarding settles with null or with the selected accounts:
\* accountsToAdd is built and the loop starts.
OnboardChosen(i, selection) ==
    LET t == tasks[i]
        toAdd == AccountsToAdd(selection.accounts, t.request, t.origin)
        t2 == [t EXCEPT !.toAdd = toAdd]
    IN /\ t.kind = "onRpcRequest" /\ t.pc = "choosing"
       /\ tasks' = IF selection.null
                   THEN SetTask(i, [t EXCEPT !.pc = "done"])
                   ELSE IF Len(toAdd) = 0
                   THEN SetTask(i, EndOfLoop(t2))
                   ELSE StartCreate(i, t2, 1)
       /\ UNCHANGED <<wallets, registry, clients, issued, events, dev,
                      requests, emitted, activated, sleepState>>

\* The createAccount the loop awaits settles: the account is pushed to the
\* added or to the failed ones, and the loop goes on.
OnboardCreated(i) ==
    LET t == tasks[i]
        k == Len(t.children)
        child == tasks[t.children[k]]
        t2 == IF child.pc = "done"
              THEN [t EXCEPT !.added = Append(@, t.toAdd[k])]
              ELSE [t EXCEPT !.failed = Append(@, [account |-> t.toAdd[k],
                                                    error |-> child.err])]
    IN /\ t.kind = "onRpcRequest" /\ t.pc = "creating"
       /\ Finished(t.children[k])
       /\ tasks' = IF k < Len(t.toAdd)
                   THEN StartCreate(i, t2, k + 1)
                   ELSE SetTask(i, EndOfLoop(t2))
       /\ UNCHANGED <<wallets, registry, clients, issued, events, dev,
                      requests, emitted, activated, sleepState>>

\* renderErrorMessage settles and the added accounts are returned.
OnboardRendered(i) ==
    LET t == tasks[i]
    IN /\ t.kind = "onRpcRequest" /\ t.pc = "rendering"
       /\ tasks' = SetTask(i, [t EXCEPT !.result = t.added, !.pc = "done"])
       /\ UNCHANGED <<wallets, registry, clients, issued, events, dev,
                      requests, emitted, activated, sleepState>>

----------------------------------------------------------------------------
(* index.ts: onKeyringRequest *)

\* onKeyringRequest({origin, request}) up to its first await (getKeyring), or
\* to the throw for an origin without permission; id is the account a
\* keyring_deleteAccount request names
OnKeyringRequest(origin, method, id) ==
    LET t == [kind |-> "onKeyringRequest", origin |-> origin,
              method |-> method, id |-> id, pc |-> "keyring", err |-> "",
              child |-> 0, result |-> {}]
    IN /\ tasks' = Append(tasks,
                     IF hasPermission(origin, method) THEN t
                     ELSE [t EXCEPT !.pc = "failed", !.err = "Unauthorized"])
       /\ UNCHANGED <<wallets, registry, clients, issued, events, dev,
                      requests, emitted, activated, sleepState>>

\* getKeyring settles and handleKeyringRequest dispatches on the method:
\* keyring.listAccounts or keyring.deleteAccount is called.
KeyringDispatched(i) ==
    LET t == tasks[i]
    IN /\ t.kind = "onKeyringRequest" /\ t.pc = "keyring"
       /\ tasks' = IF t.method = "keyring_deleteAccount"
                   THEN Append(SetTask(i, [t EXCEPT !.pc = "deleting",
                                              !.child = Len(tasks) + 1]),
                               DeleteAccountTask(t.id))
                   ELSE SetTask(i, [t EXCEPT !.pc = "listing"])
       /\ UNCHANGED <<wallets, registry, clients, issued, events, dev,
                      requests, emitted, activated, sleepState>>

\* The keyring's method settles, and so does the request.
KeyringReturned(i) ==
    LET t == tasks[i]
    IN /\ t.kind = "onKeyringRequest" /\ t.pc \in {"deleting", "listing"}
       /\ t.pc = "deleting" => Finished(t.child)
       /\ tasks' = SetTask(i,
            IF t.pc = "listing"
            THEN [t EXCEPT !.result = {Account(w) : w \in listWallets},
                           !.pc = "done"]
            ELSE [t EXCEPT !.pc = tasks[t.child].pc,
                           !.err = tasks[t.child].err])
       /\ UNCHANGED <<wallets, registry, clients, issued, events, dev,
                      requests, emitted, activated, sleepState>>

----------------------------------------------------------------------------
(* index.ts: onCronjob *)

\* the methods of the cron jobs, and one the snap does not have
CronMethods == {"execute", "manageSleepState", "unsupported"}

\* an `execute` that takes the snap for awake whatever the flag says
Asleep_Never(flag) == FALSE

\* `if (await getSleepState()) return`
Asleep(flag) == flag

\* a lockedOrInactive that looks at the lock only
lockedOrInactive_LockOnly(locked, isActivated) == locked

\* lockedOrInactive(), for the client status and the activated flag it reads
lockedOrInactive(locked, isActivated) == locked \/ ~isActivated

CronTask(method) ==
    [kind |-> "onCronjob", method |-> method,
     pc |-> CASE method = "execute" -> "sleepState"
              [] method = "manageSleepState" -> "status"
              [] OTHER -> "failed",
     err |-> IF method \in {"execute", "manageSleepState"} THEN ""
             ELSE "Method not found.",
     queried |-> IF method = "manageSleepState" THEN 1 ELSE 0,
     locked |-> FALSE, value |-> FALSE, writes |-> <<>>, polled |-> FALSE]

\* onCronjob({request}) up to its first await: getSleepState for `execute`,
\* getClientStatus (in lockedOrInactive) for `manageSleepState`
OnCronjob(method) ==
    /\ Cardinality(OpsOf("onCronjob")) < MaxCronOps
    /\ tasks' = Append(tasks, CronTask(method))
    /\ UNCHANGED <<wallets, registry, clients, issued, events, dev,
                   requests, emitted, activated, sleepState>>

\* getSleepState settles: asleep, the job returns; awake, it asks for the
\* client status.
CronSleepRead(i) ==
    LET t == tasks[i]
    IN /\ t.kind = "onCronjob" /\ t.pc = "sleepState"
       /\ tasks' = SetTask(i, IF Asleep(sleepState)
                              THEN [t EXCEPT !.pc = "done"]
                              ELSE [t EXCEPT !.pc = "status",
                                             !.queried = @ + 1])
       /\ UNCHANGED <<wallets, registry, clients, issued, events, dev,
                      requests, emitted, activated, sleepState>>

\* lockedOrInactive has returned shouldSleep to job t
AfterLockedOrInactive(t, shouldSleep) ==
    IF t.method = "execute" /\ ~shouldSleep
    THEN [t EXCEPT !.polled = TRUE, !.pc = "polling"]
    ELSE [t EXCEPT !.value = shouldSleep, !.pc = "setting"]

\* getClientStatus settles: locked, lockedOrInactive returns true; unlocked,
\* it goes on to read the activated flag.
CronStatus(i, locked) ==
    LET t == [tasks[i] EXCEPT !.locked = locked]
    IN /\ tasks[i].kind = "onCronjob" /\ tasks[i].pc = "status"
       /\ tasks' = SetTask(i, IF locked
                              THEN AfterLockedOrInactive(t, TRUE)
                              ELSE [t EXCEPT !.pc = "activated"])
       /\ UNCHANGED <<wallets, registry, clients, issued, events, dev,
                      requests, emitted, activated, sleepState>>

\* getActivated settles and lockedOrInactive returns.
CronActivated(i) ==
    LET t == tasks[i]
    IN /\ t.kind = "onCronjob" /\ t.pc = "activated"
       /\ tasks' = SetTask(i,
            AfterLockedOrInactive(t, lockedOrInactive(t.locked, activated)))
       /\ UNCHANGED <<wallets, registry, clients, issued, events, dev,
                      requests, emitted, activated, sleepState>>

\* a setSleepState that stores the flag only to put the snap to sleep
CronSet_NeverWakes(i) ==
    LET t == tasks[i]
    IN /\ t.kind = "onCronjob" /\ t.pc = "setting"
       /\ sleepState' = (sleepState \/ t.value)
       /\ tasks' = SetTask(i, [t EXCEPT !.writes = Append(@, t.value),
                                        !.pc = "done"])
       /\ UNCHANGED <<wallets, registry, clients, issued, events, dev,
                      requests, emitted, activated>>

\* setSleepState(value) settles and the job returns.
CronSet(i) ==
    LET t == tasks[i]
    IN /\ t.kind = "onCronjob" /\ t.pc = "setting"
       /\ sleepState' = t.value
       /\ tasks' = SetTask(i, [t EXCEPT !.writes = Append(@, t.value),
                                        !.pc = "done"])
       /\ UNCHANGED <<wallets, registry, clients, issued, events, dev,
                      requests, emitted, activated>>

\* poll settles, or rejects and the error is thrown on.
CronPolled(i, ok) ==
    LET t == tasks[i]
    IN /\ t.kind = "onCronjob" /\ t.pc = "polling"
       /\ tasks' = SetTask(i, IF ok THEN [t EXCEPT !.pc = "done"]
                              ELSE [t EXCEPT !.pc = "failed",
                                             !.err = "PollFailed"])
       /\ UNCHANGED <<wallets, registry, clients, issued, events, dev,
                      requests, emitted, activated, sleepState>>

----------------------------------------------------------------------------
(* SpecCron: the cron jobs of a snap that has not been onboarded, and an *)
(* onboarding request *)

\* the onboarding request of the tests
CronOnboarding ==
    [custodianType |-> "ECA3", token |-> 0, custodianApiUrl |-> "U",
     custodianEnvironment |-> "caller-env"]

NextCron ==
    \/ \E method \in CronMethods : OnCronjob(method)
    \/ \E i \in TaskIds : CronSleepRead(i)
    \/ \E i \in TaskIds : \E locked \in BOOLEAN : CronStatus(i, locked)
    \/ \E i \in TaskIds : CronActivated(i)
    \/ \E i \in TaskIds : CronSet(i)
    \/ \E i \in TaskIds : \E ok \in BOOLEAN : CronPolled(i, ok)
    \/ /\ OpsOf("onRpcRequest") = {}
       /\ OnRpcRequest("https://example.com", "authentication.onboard",
                       CronOnboarding)
    \/ \E i \in TaskIds : OnboardActivated(i)
    \/ \E i \in TaskIds : OnboardAwake(i)
    \/ \E i \in TaskIds : OnboardGrantFailed(i)

----------------------------------------------------------------------------
(* SpecOnboard: an onboarding request and the accounts it creates *)

OnBoardingRpcRequests ==
    [custodianType : CustodianTypes, token : {0},
     custodianApiUrl : {"U", "X"}, custodianEnvironment : CallerEnvs]

\* what renderOnboarding may settle with, for the accounts it was given
Selections(accounts) ==
    {[null |-> TRUE, accounts |-> <<>>]} \cup
    {[null |-> FALSE, accounts |-> o] :
        o \in Orders({accounts[k] : k \in 1..Len(accounts)})}

\* one account is stored, and the snap has never had an onboarding request
InitOnboard ==
    /\ wallets = AccountWallets
    /\ registry = [a \in Address |-> NoClient]
    /\ clients = <<>>
    /\ issued = [u \in Urls |-> 0]
    /\ tasks = <<>>
    /\ events = <<>>
    /\ dev = FALSE
    /\ requests = {}
    /\ emitted = <<>>
    /\ activated = FALSE
    /\ sleepState \in BOOLEAN

NextOnboard ==
    \/ \E origin \in RpcOrigins : \E method \in RpcMethods :
       \E params \in OnBoardingRpcRequests :
          /\ Cardinality(OpsOf("onRpcRequest")) < MaxRpcOps
          /\ OnRpcRequest(origin, method, params)
    \/ \E i \in TaskIds : OnboardActivated(i)
    \/ \E i \in TaskIds : OnboardAwake(i)
    \/ \E i \in TaskIds : \E rt \in Tokens \cup {NoToken} :
          OnboardGranted(i, rt)
    \/ \E i \in TaskIds : OnboardGrantFailed(i)
    \/ \E i \in TaskIds : OnboardListed(i)
    \/ \E i \in TaskIds : OnboardFiltered(i)
    \/ \E i \in OpsOf("onRpcRequest") :
       \E selection \in Selections(tasks[i].accounts) :
          OnboardChosen(i, selection)
    \/ \E i \in TaskIds : OnboardCreated(i)
    \/ \E i \in TaskIds : OnboardRendered(i)
    \/ \E i \in TaskIds : CreateListed(i)
    \/ \E i \in TaskIds : CreateAccepted(i)
    \/ \E i \in TaskIds : CreateRejected(i)
    \/ \E i \in TaskIds : CreateAdded(i)

SpecOnboard == InitOnboard /\ [][NextOnboard]_vars

SpecCron == InitOnboard /\ [][NextCron]_vars

----------------------------------------------------------------------------
(* SpecEntry: the entry points, called by origins with and without *)
(* permission *)

EntryOps == OpsOf("onRpcRequest") \cup OpsOf("onKeyringRequest")

\* onboarding requests with a supported and with an unsupported custodian
\* type
EntryRequests == {r \in OnBoardingRpcRequests : r.custodianApiUrl = "U"}

NextEntry ==
    \/ \E origin \in RpcOrigins : \E method \in RpcMethods :
       \E params \in EntryRequests :
          /\ Cardinality(EntryOps) < MaxEntryOps
          /\ OnRpcRequest(origin, method, params)
    \/ \E origin \in RpcOrigins : \E method \in KeyringMethods :
       \E id \in {w.id : w \in AccountWallets} :
          /\ Cardinality(EntryOps) < MaxEntryOps
          /\ OnKeyringRequest(origin, method, id)
    \/ \E i \in TaskIds : KeyringDispatched(i)
    \/ \E i \in TaskIds : KeyringReturned(i)
    \/ \E i \in TaskIds : DeleteRemoveFailed(i)
    \/ \E i \in TaskIds : DeleteRemoved(i)
    \/ \E i \in TaskIds : DeleteCommitted(i)
    \/ \E i \in TaskIds : DeleteRejected(i)
    \/ \E i \in TaskIds : OnboardActivated(i)
    \/ \E i \in TaskIds : OnboardAwake(i)
    \/ \E i \in TaskIds : OnboardGrantFailed(i)

SpecEntry == InitOnboard /\ [][NextEntry]_vars

----------------------------------------------------------------------------
(* Claims about the entry points *)

Onboardings ==
    {i \in TaskIds : /\ tasks[i].kind = "onRpcRequest"
                     /\ tasks[i].method = "authentication.onboard"}

\* the positions of accountsToAdd whose createAccount ended in state pc
Positions(i, pc) ==
    SelectSeq([k \in 1..Len(tasks[i].toAdd) |-> k],
              LAMBDA k : tasks[tasks[i].children[k]].pc = pc)

\* the line of the error message for position k of accountsToAdd
FailureLine(i, k) ==
    <<"Failed to add account", tasks[i].toAdd[k].address,
      tasks[tasks[i].children[k]].err>>

\* C22: an onboarding that has returned has called createAccount once for
\* every selected account, in selection order, whatever the earlier ones
\* did; it returns exactly the accounts whose createAccount succeeded, in
\* selection order; it has rendered one error message with one line per
\* failed account when an account failed, and none otherwise.  No
\* onboarding fails once its loop has started.
C22_BatchOnboarding ==
    \A i \in Onboardings :
        LET t == tasks[i]
            good == Positions(i, "done")
            bad == Positions(i, "failed")
        IN /\ t.pc = "failed" => t.children = <<>>
           /\ (t.pc = "done" /\ t.toAdd # <<>>)
              => /\ Len(t.children) = Len(t.toAdd)
                 /\ \A k \in 1..Len(t.toAdd) :
                       /\ tasks[t.children[k]].kind = "createAccount"
                       /\ tasks[t.children[k]].options = t.toAdd[k]
                       /\ Finished(t.children[k])
                 /\ t.result = [j \in 1..Len(good) |-> t.toAdd[good[j]]]
                 /\ t.errorMessages =
                       IF Len(bad) = 0 THEN <<>>
                       ELSE << [j \in 1..Len(bad) |->
                                   FailureLine(i, bad[j])] >>

\* two accounts were selected, the first failed and the second was added
C22_Witness ==
    \E i \in Onboardings :
        /\ tasks[i].pc = "done" /\ Len(tasks[i].toAdd) = 2
        /\ tasks[tasks[i].children[1]].pc = "failed"
        /\ tasks[tasks[i].children[2]].pc = "done"
        /\ Len(tasks[i].result) = 1 /\ Len(tasks[i].errorMessages) = 1

\* two accounts were selected and both failed
C22_WitnessAllFailed ==
    \E i \in Onboardings :
        /\ tasks[i].pc = "done" /\ Len(tasks[i].toAdd) = 2
        /\ tasks[i].result = <<>>
        /\ Len(tasks[i].errorMessages) = 1
        /\ Len(tasks[i].errorMessages[1]) = 2

\* the wallets that the createAccount calls of onboarding i have stored
CreatedBy(i) ==
    {w \in wallets : \E k \in 1..Len(tasks[i].children) :
                        w.id = uuid(tasks[i].children[k])}

\* C23: when the onboarding client has emitted RefreshTokenRotated while the
\* accounts were listed, every wallet the onboarding request creates is
\* stored with the event's new refresh token as details.token, and not
\* with the token the request was given.
C23_OnboardingKeepsRotatedToken ==
    \A i \in Onboardings :
        tasks[i].rotations # <<>>
        => \A w \in CreatedBy(i) :
              /\ w.details.token =
                    tasks[i].rotations[Len(tasks[i].rotations)].newRefreshToken
              /\ w.details.token # tasks[i].supplied.token

\* a wallet was created by an onboarding whose client had rotated the token
C23_Witness ==
    \E i \in Onboardings :
        /\ tasks[i].rotations # <<>>
        /\ CreatedBy(i) # {}

Executes ==
    {i \in TaskIds : tasks[i].kind = "onCronjob" /\ tasks[i].method = "execute"}

\* job i takes a step from position pc
StepFrom(i, pc) == tasks[i].pc = pc /\ tasks'[i] # tasks[i]

\* job i leaves without polling and without a word to the sleep flag
SleepsOn(i) ==
    /\ tasks'[i].pc = "done" /\ ~tasks'[i].polled
    /\ tasks'[i].queried = 0 /\ tasks'[i].writes = <<>>
    /\ sleepState' = sleepState

\* job i decides to set the sleep flag, and does not poll
GoesToSleep(i) ==
    /\ tasks'[i].pc = "setting" /\ tasks'[i].value /\ ~tasks'[i].polled
    /\ sleepState' = sleepState

C24_WitnessAsleep ==
    \E i \in Executes :
        /\ tasks[i].pc = "done" /\ tasks[i].queried = 0 /\ sleepState

CronJobs == {i \in TaskIds : tasks[i].kind = "onCronjob"}

\* onboarding i contacts the custodian in this step: its client posts the
\* refresh grant
ContactsCustodian(i) ==
    tasks[i].held = NoToken /\ tasks'[i].held # NoToken

\* C25: in a snap that starts not activated, a cron job polls only when the
\* snap is activated, and the activated flag changes only where a
\* handleOnboarding sets it to true: no cron job sets it and nothing sets
\* it back to false.  A handleOnboarding has set activated to true and has
\* cleared the sleep flag when it contacts the custodian.
C25_DeepSleepUntilOnboarded ==
    /\ [](\A i \in CronJobs : tasks[i].polled => activated)
    /\ [][/\ activated' # activated
             => /\ activated'
                /\ \E i \in Onboardings : StepFrom(i, "activating")
          /\ \A i \in Onboardings :
                /\ StepFrom(i, "activating") => activated'
                /\ (tasks'[i].woke /\ ~tasks[i].woke)
                   => activated /\ ~sleepState'
                /\ ContactsCustodian(i) => activated' /\ tasks'[i].woke
         ]_vars

\* a manageSleepState job found the client unlocked and put the snap to
\* sleep, an onboarding then contacted the custodian, and an execute job
\* polled
C25_Witness ==
    \E j, k \in CronJobs : \E i \in Onboardings :
        /\ j < i /\ i < k
        /\ tasks[j].method = "manageSleepState" /\ ~tasks[j].locked
        /\ tasks[j].writes = <<TRUE>>
        /\ tasks[i].held # NoToken
        /\ tasks[k].method = "execute" /\ tasks[k].polled

\* the calls of the entry points
Entries ==
    {i \in TaskIds : tasks[i].kind \in {"onRpcRequest", "onKeyringRequest"}}

\* the origins that are allowed to call the method
Allowed(method) ==
    IF method = "unsupported_method" THEN {} ELSE {"https://example.com"}

\* an entry point is called in this step by an origin that is not allowed to
\* call the method
RefusedCall ==
    /\ Len(tasks') > Len(tasks)
    /\ tasks'[Len(tasks) + 1].kind \in {"onRpcRequest", "onKeyringRequest"}
    /\ tasks'[Len(tasks) + 1].origin
          \notin Allowed(tasks'[Len(tasks) + 1].method)

\* C26: onRpcRequest and onKeyringRequest called by an origin without
\* permission for the method fail at once with the 'not allowed' error and
\* do nothing: the activated and the sleep flag, the wallets, the registry
\* and its clients, the request records and the keyring events stay as
\* they are, no keyring method is called, and the call takes no later step.
C26_UnauthorizedOriginRefused ==
    /\ [][RefusedCall
          => /\ tasks' = Append(tasks, tasks'[Len(tasks) + 1])
             /\ tasks'[Len(tasks) + 1].pc = "failed"
             /\ tasks'[Len(tasks) + 1].err = "Unauthorized"
             /\ UNCHANGED <<wallets, registry, clients, issued, events, dev,
                            requests, emitted, activated, sleepState>>]_vars
    /\ [][\A i \in Entries :
             tasks[i].err = "Unauthorized" => tasks'[i] = tasks[i]]_vars

\* an origin without permission asked for an onboarding and another for a
\* deletion: the snap is not activated and the account is stored
C26_Witness ==
    \E i, j \in Entries :
        /\ tasks[i].kind = "onRpcRequest"
        /\ tasks[i].method = "authentication.onboard"
        /\ tasks[i].origin = "unauthorized-origin"
        /\ tasks[i].err = "Unauthorized"
        /\ tasks[j].kind = "onKeyringRequest"
        /\ tasks[j].method = "keyring_deleteAccount"
        /\ tasks[j].origin = "unauthorized-origin"
        /\ tasks[j].err = "Unauthorized"
        /\ ~activated /\ wallets = AccountWallets

----------------------------------------------------------------------------
(* Claims about the request records and the signing client *)

\* the type and the subType ("" for none) that a method's record must have
RecordTags(method) ==
    CASE method = "personal_sign" -> <<"message", "personalSign">>
      [] method = "eth_signTypedData_v3" -> <<"message", "v3">>
      [] method = "eth_signTypedData_v4" -> <<"message", "v4">>
      [] method = "eth_signTransaction" -> <<"transaction", "">>

\* C27: every stored request record is tagged by the method of the request
\* that made it: personal_sign as a message of subType personalSign,
\* eth_signTypedData_v3 and _v4 as messages of subType v3 and v4,
\* eth_signTransaction as a transaction without subType; its keyringRequest
\* is the request submitRequest was given.
C27_RecordTaggedByMethod ==
    \A rec \in requests :
        /\ rec.keyringRequest = tasks[rec.by].request
        /\ rec.keyringRequest.method \in EthMethods
        /\ <<rec.type, rec.subType>> = RecordTags(rec.keyringRequest.method)

\* a submitRequest for eth_signTypedData_v4 has returned and left its record
C27_Witness ==
    \E rec \in requests :
        /\ rec.keyringRequest.method = "eth_signTypedData_v4"
        /\ rec.subType = "v4"
        /\ tasks[rec.by].pc = "done" /\ tasks[rec.by].result = "pending"

C27_WitnessTransaction ==
    \E rec \in requests :
        /\ rec.keyringRequest.method = "eth_signTransaction"
        /\ rec.type = "transaction"
        /\ tasks[rec.by].pc = "done" /\ tasks[rec.by].result = "pending"

\* C30: whenever a submitRequest invokes a signing capability, the client it
\* invokes it on is the registry's client for the address of the account
\* that request.account names (and not the client of another account whose
\* address the request gives as `from`).
C30_SigningClientIsAccounts ==
    \A i \in Submits :
        tasks[i].pc = "signing"
        => \E w \in SubmitWallets :
              /\ w.id = tasks[i].request.account
              /\ clients[tasks[i].client].key = toChecksumAddress(w.address)


\* the wallets a RefreshTokenRotated event is about: those of its API URL
Affected(event) ==
    {w \in wallets : w.details.custodianApiUrl = event.apiUrl}

\* C28: once a RefreshTokenRotated event has been emitted and every call and
\* handler has finished, the registry holds for no affected address a client
\* that has the event's old refresh token, as a client built from wallet
\* details the handler had not yet updated has.
C28_NoClientFromOldToken ==
    Settled =>
        \A n \in 1..Len(events) : \A w \in Affected(events[n]) :
            LET c == registry[toChecksumAddress(w.address)]
            IN c # NoClient
               => clients[c].refreshToken # events[n].oldRefreshToken


----------------------------------------------------------------------------
(* SpecRecreate: an account is deleted and created again, and its client is
   asked for *)

RecreateAddresses == {[b |-> "a1", c |-> "cs"]}

\* the details of the stored account, and details that differ from them in
\* the token or in the API URL
RecreateOptions ==
    {o \in [address : RecreateAddresses, url : {"U", "V"},
            env : CallerEnvs, token : {0, 1}, origin : {"origin"}] :
        o.url = "U" \/ o.token = 0}

\* no deleteAccount and no createAccount is in progress: the caller of the
\* snap awaits one before it starts the next
AccountsAtRest ==
    \A i \in OpsOf("deleteAccount") \cup OpsOf("createAccount") : Finished(i)

NextRecreate ==
    \/ \E a \in RecreateAddresses :
          /\ Cardinality(Ops) < MaxRecreateOps
          /\ tasks' = Append(tasks, GetCustodianApiForAddressTask(a))
          /\ UNCHANGED <<wallets, registry, clients, issued, events, dev,
                         requests, emitted, activated, sleepState>>
    \/ \E i \in TaskIds : GotWallet(i)
    \/ \E i \in TaskIds : GrantOk(i, 1, NoToken)
    \/ \E i \in TaskIds : GrantFailed(i, "not ok")
    \/ \E id \in {w.id : w \in wallets} :
          /\ Cardinality(Ops) < MaxRecreateOps
          /\ AccountsAtRest
          /\ DeleteAccount(id)
    \/ \E i \in TaskIds : DeleteRemoved(i)
    \/ \E i \in TaskIds : DeleteCommitted(i)
    \/ \E o \in RecreateOptions :
          /\ Cardinality(Ops) < MaxRecreateOps
          /\ AccountsAtRest
          /\ tasks' = Append(tasks, CreateAccountTask(o))
          /\ UNCHANGED <<wallets, registry, clients, issued, events, dev,
                         requests, emitted, activated, sleepState>>
    \/ \E i \in TaskIds : CreateListed(i)
    \/ \E i \in TaskIds : CreateAccepted(i)
    \/ \E i \in TaskIds : CreateAdded(i)

SpecRecreate == InitAccount /\ [][NextRecreate]_vars

----------------------------------------------------------------------------
(* Claims about the registry after an account is created again *)

\* the calls of getCustodianApiForAddress that are handed their client in
\* this step
HandedClient ==
    {i \in 1..Len(tasks') :
        /\ tasks'[i].kind = "use"
        /\ tasks'[i].client # NoClient
        /\ (i <= Len(tasks) => tasks[i].client = NoClient)}

BuiltFrom(client, w) ==
    /\ client.apiUrl = w.details.custodianApiUrl
    /\ client.refreshToken = w.details.token

\* C29: a getCustodianApiForAddress for an address that has a stored wallet
\* returns a client constructed from that wallet's details, also when the
\* wallet was created after an account of the same address, whose client the
\* registry had cached, was deleted.
C29_ClientOfRecreatedAccount ==
    [][\A i \in HandedClient :
          getWalletByAddress(tasks'[i].key) # {}
          => \E w \in getWalletByAddress(tasks'[i].key) :
                BuiltFrom(clients'[tasks'[i].client], w)]_vars


----------------------------------------------------------------------------
(* Claims about a submission after its record is persisted *)

\* C31: a submitRequest that has persisted its request record does not fail:
\* it goes on to return { pending: true }, whatever other operations (a
\* deleteAccount of its account among them) run between its awaits.
C31_PersistedSubmissionReturns ==
    \A i \in Submits : RecordsOf(i) # {} => tasks[i].pc # "failed"


----------------------------------------------------------------------------
(* Claims about the registry when a rotation has been handled *)

\* the handlers that finish in this step
HandlerFinishes == {i \in Handlers : tasks[i].pc # "done" /\ tasks'[i].pc = "done"}

\* C32: when the rotation handler has processed an event, the registry has
\* no entry left from before the update for any wallet whose (token, API URL)
\* matched the event: an entry it has for such a wallet's address is a client
\* rebuilt from the updated details, not one holding the old refresh token.
C32_RotationInvalidatesEntries ==
    [][\A i \in HandlerFinishes : \A w \in Matching(tasks'[i]) :
          LET c == registry'[toChecksumAddress(w.address)]
          IN c # NoClient
             => clients'[c].refreshToken
                   # tasks'[i].payload.oldRefreshToken]_vars


----------------------------------------------------------------------------
(* Claims about the capability methods of a client *)

Capabilities == OpsOf("use")

\* the invocation has had the answer of the refresh endpoint
GrantAnswered(t) == t.response # ""

\* C33: an invocation of a capability acquires the access token once: it
\* posts at most one refresh grant, whose answer ends the acquisition (a
\* refusal is not tried again), and it issues its JSON-RPC call at most once
\* and only when the acquisition succeeded, from the cache or by the grant.
C33_OneAcquisitionPerCall ==
    [][\A i \in Capabilities :
          /\ GrantAnswered(tasks[i]) => tasks'[i] = tasks[i]
          /\ tasks[i].rpc => tasks'[i] = tasks[i]
          /\ GrantAnswered(tasks'[i]) => Finished(i)'
          /\ tasks'[i].rpc
                => /\ tasks'[i].pc = "done"
                   /\ \/ tasks'[i].response = "ok"
                      \/ tasks'[i].sent = NoToken
          /\ tasks'[i].pc = "failed" => ~tasks'[i].rpc]_vars

\* a capability call whose grant succeeded and which issued its JSON-RPC
\* call, and one whose grant was refused and which issued none
C33_Witness ==
    \E j, k \in Capabilities :
        /\ tasks[j].pc = "done" /\ tasks[j].rpc /\ tasks[j].response = "ok"
        /\ tasks[k].pc = "failed" /\ tasks[k].response = "401"
        /\ ~tasks[k].rpc

\* a capability call answered from the cache, with no grant posted
C33_WitnessCached ==
    \E i \in Capabilities :
        /\ tasks[i].pc = "done" /\ tasks[i].rpc
        /\ tasks[i].sent = NoToken /\ tasks[i].response = ""


\* the grant of call i fails in this step: the endpoint refuses it, or the
\* request or the decoding of the answer fails
GrantFails(i) ==
    /\ GrantPosted(i)
    /\ tasks[i].response = ""
    /\ tasks'[i].response \in GrantFailures \cup FetchErrors

\* C34: when a refresh grant fails (status 401 with a url, another status
\* that is not ok, a network or a decoding error), getAccessToken fails, the
\* client's cached access token, its recorded TTL and its held refresh token
\* are what they were, and no RefreshTokenRotated event is emitted.
C34_FailedGrantChangesNothing ==
    [][\A i \in DOMAIN tasks :
          GrantFails(i)
          => /\ tasks'[i].pc = "failed" /\ tasks'[i].err # ""
             /\ clients' = clients
             /\ events' = events
             /\ Handlers' = Handlers]_vars

\* a grant failed without an answer on a client that had a cached token,
\* which it still has
C34_Witness ==
    \E i \in Capabilities :
        /\ tasks[i].pc = "failed" /\ tasks[i].response \in FetchErrors
        /\ clients[tasks[i].client].cached
        /\ clients[tasks[i].client].cacheAge # NoAge


----------------------------------------------------------------------------
(* ECA1Client and ECA3Client: getAccessToken of each generation *)

\* a client of either generation after its constructor: no cached token
GenClient(apiUrl, refreshToken) ==
    [apiUrl |-> apiUrl, refreshToken |-> refreshToken, cacheAge |-> NoAge,
     cached |-> FALSE, age |-> 0, accessToken |-> NoToken]

\* the first of the numbers that stand for percent-encoded texts
Encoded == 400

\* encodeURIComponent(text), and what the endpoint decodes it to
encodeURIComponent(text) == Encoded + text

decodeURIComponent(text) == text - Encoded

\* what getAccessToken has come to: a token returned, an error thrown, or
\* the grant posted
TokenError(message) ==
    [pc |-> "failed", value |-> NoToken,
     err |-> <<"Error getting the Access Token: ", message>>]

Fetching == [pc |-> "fetching", value |-> NoToken, err |-> <<>>]

RotatedEvent(payload) ==
    [name |-> "REFRESH_TOKEN_CHANGE_EVENT", payload |-> payload]

ExpiredEvent(payload) == [name |-> "TOKEN_EXPIRED_EVENT", payload |-> payload]

\* ECA1Client.getAccessToken up to the await of fetch: the cached token, or
\* the form-encoded grant
ECA1_Start(client) ==
    IF /\ client.cacheAge # NoAge /\ client.cacheAge # 0
       /\ cacheExists(client)
       /\ cacheValid(client, client.cacheAge)
    THEN [out |-> [pc |-> "done", value |-> client.accessToken, err |-> <<>>],
          posted |-> <<>>]
    ELSE [out |-> Fetching,
          posted |-> <<[contentType |-> "application/x-www-form-urlencoded",
                        grant_type |-> "refresh_token",
                        refresh_token |->
                            encodeURIComponent(client.refreshToken)]>>]

\* ECA3Client.getAccessToken up to the await of fetch: the cached token, or
\* the JSON grant
ECA3_Start(client) ==
    IF CacheTrusted(client)
    THEN [out |-> [pc |-> "done", value |-> client.accessToken, err |-> <<>>],
          posted |-> <<>>]
    ELSE [out |-> Fetching,
          posted |-> <<[contentType |-> "application/json",
                        grant_type |-> "refresh_token",
                        refresh_token |-> client.refreshToken]>>]

\* an ECA1 client that keeps its refresh token whatever the answer carries
ECA1_Answer_KeepsToken(client, answer) ==
    IF answer.response = "ok"
    THEN [client |-> [client EXCEPT !.cacheAge = answer.expires_in,
                                    !.cached = TRUE, !.age = 0,
                                    !.accessToken = answer.access_token],
          out |-> [pc |-> "done", value |-> answer.access_token,
                   err |-> <<>>],
          events |-> <<>>]
    ELSE [client |-> client, out |-> TokenError(answer.response),
          events |-> <<>>]

\* ECA1Client.getAccessToken from the settling of fetch to its end
ECA1_Answer(client, answer) ==
    IF answer.response \in FetchErrors
    THEN [client |-> client, out |-> TokenError(answer.response),
          events |-> <<>>]
    ELSE IF answer.response = "401 url"
    THEN [client |-> client,
          out |-> TokenError("Refresh token provided is no longer valid."),
          events |-> <<ExpiredEvent(
                         [url |-> OnboardingUrl,
                          oldRefreshToken |->
                              sha256(<<client.refreshToken,
                                       OnboardingUrl>>)])>>]
    ELSE IF answer.response # "ok"
    THEN [client |-> client, out |-> TokenError("Request failed with status"),
          events |-> <<>>]
    ELSE LET newRefreshToken == answer.refresh_token
             changed == /\ answer.refresh_token # NoToken
                        /\ answer.refresh_token # client.refreshToken
             c2 == [client EXCEPT !.cacheAge = answer.expires_in,
                                  !.cached = TRUE, !.age = 0,
                                  !.accessToken = answer.access_token]
         IN [client |-> IF changed
                        THEN [c2 EXCEPT !.refreshToken = newRefreshToken]
                        ELSE c2,
             out |-> [pc |-> "done", value |-> answer.access_token,
                      err |-> <<>>],
             events |-> IF changed
                        THEN <<RotatedEvent(
                                 [apiUrl |-> client.apiUrl,
                                  oldRefreshToken |-> client.refreshToken,
                                  newRefreshToken |-> newRefreshToken])>>
                        ELSE <<>>]

\* ECA3Client.getAccessToken from the settling of fetch to its end
ECA3_Answer(client, answer) ==
    IF answer.response \in FetchErrors
    THEN [client |-> client, out |-> TokenError(answer.response),
          events |-> <<>>]
    ELSE IF answer.response = "401 url"
    THEN [client |-> client,
          out |-> TokenError("Refresh token provided is no longer valid."),
          events |-> <<ExpiredEvent(
                         TokenExpiredPayload(OnboardingUrl,
                                             client.refreshToken))>>]
    ELSE IF answer.response # "ok"
    THEN [client |-> client, out |-> TokenError("Request failed with status"),
          events |-> <<>>]
    ELSE LET c2 == [client EXCEPT !.cacheAge = answer.expires_in,
                                  !.cached = TRUE, !.age = 0,
                                  !.accessToken = answer.access_token]
         IN IF Rotated(client.refreshToken, answer.refresh_token)
            THEN [client |-> [c2 EXCEPT !.refreshToken =
                                            answer.refresh_token],
                  out |-> [pc |-> "done", value |-> answer.access_token,
                           err |-> <<>>],
                  events |-> <<RotatedEvent(
                                 [apiUrl |-> client.apiUrl,
                                  oldRefreshToken |-> client.refreshToken,
                                  newRefreshToken |->
                                      answer.refresh_token])>>]
            ELSE [client |-> c2,
                  out |-> [pc |-> "done", value |-> answer.access_token,
                           err |-> <<>>],
                  events |-> <<>>]

----------------------------------------------------------------------------
(* SpecGenerations: an ECA1 client and an ECA3 client, fed the same calls,
   clock and answers *)

\* clients[ECA1] and clients[ECA3] are the two clients
ECA1 == 1

ECA3 == 2

\* access_token of the answer to call i
AccessToken(i) == 300 + i

\* the answers of the refresh endpoint, and the failures of the request
Answers(i) ==
    [response : {"ok"}, access_token : {AccessToken(i)},
     expires_in : Lifetimes, refresh_token : {NoToken} \cup 0..MaxTok]
    \cup [response : GrantFailures \cup FetchErrors,
          access_token : {NoToken}, expires_in : {NoAge},
          refresh_token : {NoToken}]

InitGenerations ==
    /\ wallets = {}
    /\ registry = [a \in Address |-> NoClient]
    /\ clients = <<GenClient("U", 0), GenClient("U", 0)>>
    /\ issued = [u \in Urls |-> 0]
    /\ tasks = <<>>
    /\ events = <<>>
    /\ dev = FALSE
    /\ requests = {}
    /\ emitted = <<>>
    /\ activated = TRUE
    /\ sleepState = FALSE

\* getAccessToken is called on both clients
GenCall ==
    LET s1 == ECA1_Start(clients[ECA1])
        s3 == ECA3_Start(clients[ECA3])
    IN /\ Len(tasks) < MaxGenCalls
       /\ tasks' = Append(tasks,
             [kind |-> "getAccessToken", out1 |-> s1.out, out3 |-> s3.out,
              posted1 |-> s1.posted, posted3 |-> s3.posted,
              events1 |-> <<>>, events3 |-> <<>>])
       /\ UNCHANGED <<wallets, registry, clients, issued, events, dev,
                      requests, emitted, activated, sleepState>>

\* The fetch of call i settles with the same answer on the clients that
\* await it.
GenAnswer(i, answer) ==
    LET t == tasks[i]
        a1 == ECA1_Answer(clients[ECA1], answer)
        a3 == ECA3_Answer(clients[ECA3], answer)
        on1 == t.out1.pc = "fetching"
        on3 == t.out3.pc = "fetching"
    IN /\ t.kind = "getAccessToken"
       /\ on1 \/ on3
       /\ clients' = [clients EXCEPT
                        ![ECA1] = IF on1 THEN a1.client ELSE @,
                        ![ECA3] = IF on3 THEN a3.client ELSE @]
       /\ tasks' = SetTask(i,
             [t EXCEPT !.out1 = IF on1 THEN a1.out ELSE @,
                       !.out3 = IF on3 THEN a3.out ELSE @,
                       !.events1 = IF on1 THEN a1.events ELSE @,
                       !.events3 = IF on3 THEN a3.events ELSE @])
       /\ UNCHANGED <<wallets, registry, issued, events, dev, requests,
                      emitted, activated, sleepState>>

\* The clock of both clients advances by one unit.
GenTick ==
    /\ \E c \in {ECA1, ECA3} :
          clients[c].cached /\ clients[c].age < clients[c].cacheAge
    /\ clients' = [c \in {ECA1, ECA3} |->
                      IF clients[c].cached
                      THEN [clients[c] EXCEPT !.age = @ + 1]
                      ELSE clients[c]]
    /\ UNCHANGED <<wallets, registry, issued, tasks, events, dev, requests,
                   emitted, activated, sleepState>>

NextGenerations ==
    \/ GenCall
    \/ \E i \in TaskIds : \E answer \in Answers(i) : GenAnswer(i, answer)
    \/ GenTick

SpecGenerations == InitGenerations /\ [][NextGenerations]_vars

----------------------------------------------------------------------------
(* Claims about the two generations *)

\* the refresh token the endpoint reads from a posted grant
GrantToken(posted) ==
    IF posted.contentType = "application/json"
    THEN posted.refresh_token
    ELSE decodeURIComponent(posted.refresh_token)

\* C35: an ECA1 client and an ECA3 client started with the same refresh
\* token and fed the same getAccessToken calls, clock values and answers of
\* the refresh endpoint agree after every step: each call has come to the
\* same point with the same token returned or error thrown, has posted a
\* grant for the same refresh token, and has emitted the same events with
\* the same payloads, and the clients hold the same refresh token and cache.
C35_GenerationsAgree ==
    /\ clients[ECA1] = clients[ECA3]
    /\ \A i \in TaskIds :
          /\ tasks[i].out1 = tasks[i].out3
          /\ tasks[i].events1 = tasks[i].events3
          /\ Len(tasks[i].posted1) = Len(tasks[i].posted3)
          /\ \A n \in 1..Len(tasks[i].posted1) :
                GrantToken(tasks[i].posted1[n])
                    = GrantToken(tasks[i].posted3[n])

\* both clients have rotated their token on a call's answer, and a later
\* call was answered from the cache of both
C35_Witness ==
    \E i, j \in TaskIds :
        /\ Len(tasks[i].events1) = 1
        /\ tasks[i].events1[1].name = "REFRESH_TOKEN_CHANGE_EVENT"
        /\ clients[ECA1].refreshToken = 1
        /\ tasks[j].posted1 = <<>> /\ tasks[j].out1.pc = "done"
        /\ tasks[j].out1.value = AccessToken(i)

\* both clients have emitted TOKEN_EXPIRED_EVENT and thrown
C35_WitnessExpired ==
    \E i \in TaskIds :
        /\ Len(tasks[i].events3) = 1
        /\ tasks[i].events3[1].name = "TOKEN_EXPIRED_EVENT"
        /\ tasks[i].out3.pc = "failed"


----------------------------------------------------------------------------
(* CustodialKeyring.listAccounts, getAccount, listRequests *)

\* listAccounts(), getAccount(id), listRequests() up to the await of the
\* state manager or of the request manager; listRequests returns [] at once
\* when config.dev is off
ReadTask(kind, arg) ==
    [kind |-> kind, arg |-> arg, err |-> "",
     pc |-> IF kind = "listRequests" /\ ~dev THEN "done" ELSE "reading",
     result |-> {}]

ReadCall(kind, arg) ==
    /\ Cardinality(Ops) < MaxReadOps
    /\ tasks' = Append(tasks, ReadTask(kind, arg))
    /\ UNCHANGED <<wallets, registry, clients, issued, events, dev, requests,
                   emitted, activated, sleepState>>

\* what the call returns when its await settles
ReadResult(t) ==
    CASE t.kind = "listAccounts" -> {Account(w) : w \in wallets}
      [] t.kind = "getAccount" -> {Account(w) : w \in getAccount(t.arg)}
      [] t.kind = "listRequests" -> {r.keyringRequest : r \in requests}

ReadSettled(i) ==
    LET t == tasks[i]
    IN /\ t.kind \in {"listAccounts", "getAccount", "listRequests"}
       /\ t.pc = "reading"
       /\ tasks' = SetTask(i, [t EXCEPT !.result = ReadResult(t),
                                        !.pc = "done"])
       /\ UNCHANGED <<wallets, registry, clients, issued, events, dev,
                      requests, emitted, activated, sleepState>>

----------------------------------------------------------------------------
(* SpecRegistry: every operation of the keyring beside the registry *)

\* the address of a stored wallet, and one of no wallet
RegistryAddresses == {[b |-> "a1", c |-> "cs"], [b |-> "a4", c |-> "cs"]}

RegistryOptions ==
    [address : RegistryAddresses, url : {"U"}, env : CallerEnvs, token : {0},
     origin : {"origin"}]

InitRegistry ==
    /\ wallets = RotationWallets
    /\ registry = [a \in Address |-> NoClient]
    /\ clients = <<>>
    /\ issued = [u \in Urls |-> 0]
    /\ tasks = <<>>
    /\ events = <<>>
    /\ dev \in BOOLEAN
    /\ requests = ReadRequests
    /\ emitted = <<>>
    /\ activated = TRUE
    /\ sleepState = FALSE

NextRegistry ==
    \/ \E a \in RegistryAddresses : GetCustodianApiForAddress(a)
    \/ \E i \in TaskIds : GotWallet(i)
    \/ \E i \in TaskIds : \E rt \in {NoToken, 1} : GrantOk(i, 1, rt)
    \/ \E i \in TaskIds : GrantFailed(i, "not ok")
    \/ \E i \in TaskIds : HandlerListed(i)
    \/ \E i \in TaskIds : HandlerUpdated(i)
    \/ ReadCall("listAccounts", 0)
    \/ \E id \in {1, 99} : ReadCall("getAccount", id)
    \/ ReadCall("listRequests", 0)
    \/ \E i \in TaskIds : ReadSettled(i)
    \/ \E o \in RegistryOptions : CreateAccount(o)
    \/ \E i \in TaskIds : CreateListed(i)
    \/ \E i \in TaskIds : CreateAccepted(i)
    \/ \E i \in TaskIds : CreateAdded(i)
    \/ \E id \in {w.id : w \in wallets} :
          /\ Cardinality(Ops) < MaxAccountOps
          /\ DeleteAccount(id)
    \/ \E i \in TaskIds : DeleteRemoved(i)
    \/ \E i \in TaskIds : DeleteCommitted(i)
    \/ \E o \in Origins : GetConnectedAccounts(Details(0, "U"), o)
    \/ \E i \in TaskIds : ConnectedListed(i)
    \/ \E id \in {1} : UpdateAccount(id)
    \/ \E id \in {0} : ApproveRequest(id)
    \/ \E id \in {0} : RejectRequest(id)

SpecRegistry == InitRegistry /\ [][NextRegistry]_vars

----------------------------------------------------------------------------
(* Claims about what changes the registry *)

\* the calls that start or go on in this step
Moved == {i \in DOMAIN tasks' : i \notin DOMAIN tasks \/ tasks'[i] # tasks[i]}

\* the operations that have nothing to do with the registry
RegistryBystanders ==
    {"listAccounts", "getAccount", "createAccount", "deleteAccount",
     "getConnectedAccounts", "listRequests", "updateAccount",
     "approveRequest", "rejectRequest"}

\* a getCustodianApiForAddress whose lookup of the wallet settles in this step
MissSettles(i) ==
    /\ tasks[i].kind = "use" /\ tasks[i].pc = "awaitWallet"
    /\ tasks'[i] # tasks[i]

\* this step stores under key k the client that a call, which had missed k
\* in the registry when it started, built from the stored wallet it found
InsertedOnMiss(k) ==
    /\ registry'[k] = Len(clients) + 1
    /\ Len(clients') = Len(clients) + 1
    /\ getWalletByAddress(k) # {}
    /\ \E i \in TaskIds : MissSettles(i) /\ tasks[i].key = k

\* this step removes the entry of k: the rotation handler, for a wallet that
\* matched its event
RemovedByHandler(k) ==
    /\ registry'[k] = NoClient
    /\ \E i \in Handlers :
          /\ tasks'[i] # tasks[i]
          /\ \E w \in Matching(tasks'[i]) : w.address = k

\* C36: the registry changes only where getCustodianApiForAddress inserts the
\* client it built on a miss for an address that has a stored wallet, and
\* where the rotation handler removes an entry; a miss for an address with
\* no stored wallet fails and inserts nothing, and no step of listAccounts,
\* getAccount, createAccount, deleteAccount, getConnectedAccounts,
\* listRequests, updateAccount, approveRequest or rejectRequest changes it.
C36_RegistryFrame ==
    [][/\ \A k \in Address :
             registry'[k] # registry[k]
             => InsertedOnMiss(k) \/ RemovedByHandler(k)
       /\ \A i \in TaskIds :
             (MissSettles(i) /\ getWalletByAddress(tasks[i].key) = {})
             => /\ tasks'[i].pc = "failed"
                /\ UNCHANGED <<registry, clients>>
       /\ \A i \in Moved :
             tasks'[i].kind \in RegistryBystanders
             => UNCHANGED registry]_vars

\* an account whose client is in the registry was deleted, and a lookup for
\* an address with no wallet has failed
C36_Witness ==
    /\ \E i \in OpsOf("deleteAccount") :
          /\ tasks[i].pc = "done"
          /\ registry[[b |-> "a1", c |-> "cs"]] # NoClient
          /\ getWalletByAddress([b |-> "a1", c |-> "cs"]) = {}

\* the handler has removed the entry that a lookup miss had inserted
C36_WitnessRemoved ==
    \E i \in Handlers :
        /\ tasks[i].pc = "done" /\ tasks[i].calls # {}
        /\ Len(clients) = 1
        /\ registry[clients[1].key] = NoClient

\* a lookup for an address with no wallet has failed, with the registry empty
C36_WitnessMiss ==
    \E i \in OpsOf("use") :
        /\ tasks[i].pc = "failed" /\ tasks[i].err = "WalletNotFound"
        /\ \A k \in Address : registry[k] = NoClient

----------------------------------------------------------------------------
(* Claims about the order of the custodian call and the record *)

\* the errors of the client lookup, the wallet lookup and the custodian call
\* of #handleSigningRequest and #signTransaction
SigningErrors == {"WalletNotFound", "CustodianCallFailed"}

\* C37: a submitRequest whose custodian capability call (signPersonalMessage,
\* signTypedData, createTransaction) or whose client or wallet lookup before
\* it fails, fails itself and has persisted no request record; upsertRequest
\* is called only once the custodian has returned its id.
C37_NoRecordWithoutCustodianId ==
    \A i \in Submits :
        /\ (tasks[i].pc = "failed" /\ tasks[i].err \in SigningErrors)
              => /\ RecordsOf(i) = {}
                 /\ tasks[i].upserts = 0
                 /\ tasks[i].custodianId = NoId
        /\ tasks[i].pc \in {"awaitWallet", "txWallet", "signing"}
              => RecordsOf(i) = {} /\ tasks[i].upserts = 0
        /\ (tasks[i].upserts > 0 \/ RecordsOf(i) # {})
              => tasks[i].custodianId = custodianId(i)

\* a submission has failed at the custodian's signing call
C37_Witness ==
    \E i \in Submits :
        /\ tasks[i].pc = "failed"
        /\ tasks[i].err = "CustodianCallFailed"
        /\ tasks[i].capabilities = 1
        /\ requests = {}

\* a submission has failed at the wallet lookup of the client
C37_WitnessLookup ==
    \E i \in Submits :
        /\ tasks[i].pc = "failed"
        /\ tasks[i].err = "WalletNotFound"
        /\ tasks[i].lookups = 1
        /\ requests = {}

----------------------------------------------------------------------------
(* SpecPublish: accounts made by createAccount, and eth_signTransaction *)

PublishAddresses == {[b |-> "a1", c |-> "cs"], [b |-> "a2", c |-> "cs"]}

\* the accounts a run makes: at either address, at each API URL
PublishOptions ==
    [address : PublishAddresses, url : ApiUrls, env : CallerEnvs,
     token : {0}, origin : {"origin"}]

\* eth_signTransaction for the accounts createAccount may have made
PublishRequests ==
    [account : {uuid(i) : i \in 1..MaxPublishOps},
     method : {"eth_signTransaction"}, from : PublishAddresses]

\* no account is stored when the run starts
InitPublish ==
    /\ wallets = {}
    /\ registry = [a \in Address |-> NoClient]
    /\ clients = <<>>
    /\ issued = [u \in Urls |-> 0]
    /\ tasks = <<>>
    /\ events = <<>>
    /\ dev \in BOOLEAN
    /\ requests = {}
    /\ emitted = <<>>
    /\ activated = TRUE
    /\ sleepState = FALSE

NextPublish ==
    \/ \E o \in PublishOptions :
          /\ Cardinality(Ops) < MaxPublishOps
          /\ AccountsAtRest
          /\ tasks' = Append(tasks, CreateAccountTask(o))
          /\ UNCHANGED <<wallets, registry, clients, issued, events, dev,
                         requests, emitted, activated, sleepState>>
    \/ \E i \in TaskIds : CreateListed(i)
    \/ \E i \in TaskIds : CreateAccepted(i)
    \/ \E i \in TaskIds : CreateAdded(i)
    \/ \E id \in {w.id : w \in wallets} :
          /\ Cardinality(Ops) < MaxPublishOps
          /\ AccountsAtRest
          /\ DeleteAccount(id)
    \/ \E i \in TaskIds : DeleteRemoved(i)
    \/ \E i \in TaskIds : DeleteCommitted(i)
    \/ \E r \in PublishRequests :
          /\ Cardinality(Ops) < MaxPublishOps
          /\ OpsOf("submitRequest") = {}
          /\ SubmitRequest(r)
    \/ \E i \in TaskIds : SubmitValidated(i)
    \/ \E i \in TaskIds : SubmitGotWallet(i)
    \/ \E i \in TaskIds : SubmitTxWallet(i)
    \/ \E i \in TaskIds : \E ok \in BOOLEAN : SubmitSigned(i, ok)
    \/ \E i \in TaskIds : SubmitUpserted(i)
    \/ \E i \in TaskIds : SubmitAccount(i)
    \/ \E i \in TaskIds : SubmitLinkWallet(i)
    \/ \E i \in TaskIds : \E ok \in BOOLEAN : SubmitLinked(i, ok)
    \/ \E i \in TaskIds : SubmitRendered(i)

SpecPublish == InitPublish /\ [][NextPublish]_vars

\* custodianPublishesTransaction of the first allow-list entry whose
\* apiBaseUrl is url, false when there is none
Publishes(url) ==
    \E n \in 1..Len(custodianMetadata) :
        /\ custodianMetadata[n].apiBaseUrl = url
        /\ \A m \in 1..(n - 1) : custodianMetadata[m].apiBaseUrl # url
        /\ custodianMetadata[n].custodianPublishesTransaction

\* submission i calls createTransaction in the step
CallsCreateTransaction(i) ==
    /\ tasks[i].kind = "submitRequest"
    /\ tasks[i].pc = "txWallet"
    /\ tasks'[i].pc = "signing"

C38_WitnessClear ==
    \E i \in Submits :
        /\ tasks[i].txOptions = <<FALSE>>
        /\ \E w \in wallets : w.details.custodianApiUrl = "V"

\* in dev mode createTransaction has been called with the flag clear, for an
\* account at an API URL of no allow-list entry
C38_WitnessUnlisted ==
    \E i \in Submits :
        /\ tasks[i].txOptions = <<FALSE>>
        /\ \E w \in wallets : w.details.custodianApiUrl = "X"

----------------------------------------------------------------------------
(* SpecSchedule: the two cron jobs as the platform fires them, again and *)
(* again, and an onboarding request *)

\* the jobs of the snap
ScheduledJobs == {"execute", "manageSleepState"}

\* the runs of a job
RunsOf(method) == {i \in OpsOf("onCronjob") : tasks[i].method = method}

\* The platform fires a job: onCronjob({request}) up to its first await.  A
\* job is fired when its last run has ended, and the record of that run is
\* dropped.
FireCronjob(method) ==
    /\ \A i \in RunsOf(method) : Finished(i)
    /\ tasks' = IF RunsOf(method) = {}
                THEN Append(tasks, CronTask(method))
                ELSE SetTask(CHOOSE i \in RunsOf(method) : TRUE,
                             CronTask(method))
    /\ UNCHANGED <<wallets, registry, clients, issued, events, dev,
                   requests, emitted, activated, sleepState>>

NextSchedule ==
    \/ \E method \in ScheduledJobs : FireCronjob(method)
    \/ \E i \in TaskIds : CronSleepRead(i)
    \/ \E i \in TaskIds : \E locked \in BOOLEAN : CronStatus(i, locked)
    \/ \E i \in TaskIds : CronActivated(i)
    \/ \E i \in TaskIds : CronSet(i)
    \/ \E i \in TaskIds : \E ok \in BOOLEAN : CronPolled(i, ok)
    \/ /\ OpsOf("onRpcRequest") = {}
       /\ OnRpcRequest("https://example.com", "authentication.onboard",
                       CronOnboarding)
    \/ \E i \in TaskIds : OnboardActivated(i)
    \/ \E i \in TaskIds : OnboardAwake(i)
    \/ \E i \in TaskIds : OnboardGrantFailed(i)

\* the steps of the task in slot i: an await that was started settles
Settles(i) ==
    /\ i \in TaskIds
    /\ \/ CronSleepRead(i)
       \/ \E locked \in BOOLEAN : CronStatus(i, locked)
       \/ CronActivated(i)
       \/ CronSet(i)
       \/ \E ok \in BOOLEAN : CronPolled(i, ok)
       \/ OnboardActivated(i)
       \/ OnboardAwake(i)
       \/ OnboardGrantFailed(i)

\* the two jobs and the onboarding request
ScheduleSlots == 1..(Cardinality(ScheduledJobs) + 1)

\* Each job is fired again after its run has ended, and every await of a
\* running handler settles.
FairSchedule ==
    /\ \A method \in ScheduledJobs : WF_vars(FireCronjob(method))
    /\ \A i \in ScheduleSlots : WF_vars(Settles(i))

SpecSchedule == InitOnboard /\ [][NextSchedule]_vars /\ FairSchedule

----------------------------------------------------------------------------
(* Claims about the sleep flag *)

\* getClientStatus answers a job in the step
StatusAnswered(i) ==
    /\ i \in CronJobs
    /\ tasks[i].pc = "status"
    /\ tasks'[i] # tasks[i]

\* every answer of getClientStatus in the step is `unlocked`
ClientUnlocked == \A i \in TaskIds : StatusAnswered(i) => ~tasks'[i].locked

\* an `execute` job is polling
ExecutePolls ==
    \E i \in CronJobs : tasks[i].method = "execute" /\ tasks[i].pc = "polling"

\* the step is one of a job of the method
StepOf(method) ==
    \E i \in CronJobs : tasks[i].method = method /\ tasks'[i] # tasks[i]

\* the step is one of an onboarding request
OnboardingStep ==
    \E i \in OpsOf("onRpcRequest") : tasks'[i] # tasks[i]

\* C39: with both cron jobs fired again and again, if from some point on the
\* client is unlocked and the snap is activated, then eventually the sleep
\* flag is false and after that an `execute` job polls, whatever the flag was
\* before; and no step of an `execute` job clears the sleep flag: the steps
\* that clear it are those of manageSleepState jobs and of onboarding.
C39_WakesUp ==
    /\ (<>[][ClientUnlocked]_vars /\ <>[]activated)
          => <>(~sleepState /\ <>ExecutePolls)
    /\ [][ /\ StepOf("execute") => (sleepState => sleepState')
           /\ (sleepState /\ ~sleepState')
                 => StepOf("manageSleepState") \/ OnboardingStep ]_vars

\* the snap is activated, a manageSleepState job has cleared the flag, and an
\* `execute` job polls
C39_Witness ==
    /\ activated /\ ~sleepState
    /\ \E i \in CronJobs : /\ tasks[i].method = "manageSleepState"
                        /\ tasks[i].writes = <<FALSE>>
    /\ ExecutePolls

----------------------------------------------------------------------------
(* SpecOrigin: accounts imported by two origins, and getConnectedAccounts *)
(* called by both *)

\* the accounts of one custodian session, imported by either origin
OriginOptions ==
    [address : AccountAddresses, url : {"U"}, env : CallerEnvs, token : {0},
     origin : Origins]

\* the connection of those accounts, and one with another token
OriginDetails ==
    [token : {0, 1}, custodianApiUrl : {"U"}, custodianType : {"ECA3"},
     custodianEnvironment : CallerEnvs]

NextOrigin ==
    \/ \E o \in OriginOptions :
          /\ Cardinality(Ops) < MaxOriginOps
          /\ AccountsAtRest
          /\ tasks' = Append(tasks, CreateAccountTask(o))
          /\ UNCHANGED <<wallets, registry, clients, issued, events, dev,
                         requests, emitted, activated, sleepState>>
    \/ \E i \in TaskIds : CreateListed(i)
    \/ \E i \in TaskIds : CreateAccepted(i)
    \/ \E i \in TaskIds : CreateRejected(i)
    \/ \E i \in TaskIds : CreateAdded(i)
    \/ \E d \in OriginDetails : \E o \in Origins :
          /\ Cardinality(Ops) < MaxOriginOps
          /\ tasks' = Append(tasks, GetConnectedAccountsTask(d, o))
          /\ UNCHANGED <<wallets, registry, clients, issued, events, dev,
                         requests, emitted, activated, sleepState>>
    \/ \E i \in TaskIds : ConnectedListed(i)

\* no account is stored when the run starts
SpecOrigin == InitPublish /\ [][NextOrigin]_vars

\* the createAccount calls of origin o that have returned their account
ImportedBy(o) ==
    {c \in Creates : tasks[c].pc = "done" /\ tasks[c].options.origin = o}

\* the ids of the accounts call i returned
ReturnedIds(i) == {tasks[i].result[k].id : k \in 1..Len(tasks[i].result)}

\* the wallets of origin o in the list call i read
ListedOf(i, o) == {w \in tasks[i].listed : w.options.importOrigin = o}

\* C40: an account made by createAccount with origin O is returned by
\* getConnectedAccounts to callers of origin O only: a call from another
\* origin returns no account imported by O, whatever token, API URL, type
\* and environment it gives, and what it returns does not depend on the
\* accounts of other origins (two calls of one origin with the same details
\* that read lists with the same wallets of that origin return the same).
C40_OriginIsolation ==
    /\ \A i \in Queries : \A o \in Origins : \A c \in ImportedBy(o) :
          (tasks[i].pc = "done" /\ tasks[i].origin # o)
              => uuid(c) \notin ReturnedIds(i)
    /\ \A i, j \in Queries :
          (/\ tasks[i].pc = "done" /\ tasks[j].pc = "done"
           /\ tasks[i].origin = tasks[j].origin
           /\ tasks[i].details = tasks[j].details
           /\ ListedOf(i, tasks[i].origin) = ListedOf(j, tasks[j].origin))
              => tasks[i].result = tasks[j].result

\* an account was imported by `origin`; with its exact connection details a
\* call from `other` has returned nothing and a call from `origin` has
\* returned the account, both having read the list that holds it
C40_Witness ==
    \E c \in ImportedBy("origin") : \E i, j \in Queries :
        /\ tasks[i].pc = "done" /\ tasks[j].pc = "done"
        /\ tasks[i].origin = "other" /\ tasks[j].origin = "origin"
        /\ tasks[i].details = tasks[j].details
        /\ tasks[i].details.token = tasks[c].options.token
        /\ \E w \in tasks[i].listed : w.id = uuid(c)
        /\ tasks[i].listed = tasks[j].listed
        /\ tasks[i].result = <<>>
        /\ ReturnedIds(j) = {uuid(c)}

\* a call from `other` has returned nothing before and after `origin`
\* imported an account with the details the call gives
C40_WitnessTwoRuns ==
    \E c \in ImportedBy("origin") : \E i, j \in Queries :
        /\ tasks[i].pc = "done" /\ tasks[j].pc = "done"
        /\ tasks[i].origin = "other" /\ tasks[j].origin = "other"
        /\ tasks[i].details = tasks[j].details
        /\ tasks[i].details.token = tasks[c].options.token
        /\ tasks[i].listed = {}
        /\ \E w \in tasks[j].listed : w.id = uuid(c)
        /\ tasks[i].result = tasks[j].result

====
